---- MODULE Spec2Model ----
(***************************************************************************)
(* Model of the OpenAPI normalization pipeline of mcp-openapi:             *)
(*   - DefaultSpecProcessor (src/src/core/SpecProcessor.ts): dereference   *)
(*     pass followed by the allOf flatten pass;                            *)
(*   - DefaultSpecScanner (src/unnamed/part_004): the lazy per-file scan.  *)
(* JSON objects are functions from key strings to values; a key is present *)
(* iff it is in the DOMAIN.  Arrays are sequences.                         *)
(***************************************************************************)
EXTENDS Integers, Sequences, FiniteSets, TLC

VARIABLES
  pc,               \* position inside DefaultSpecProcessor.process
  round,            \* 1: first call of process; 2: process applied to its own result
  pos,              \* where the schema under study sits in the document
  node,             \* the schema under study, as the caller wrote it
  spec,             \* the caller's document object (argument of process)
  specBefore,       \* deep snapshot of the caller's document taken at the call
  dereferencedSpec, \* value returned by the dereference pass
  processedSpec,    \* value returned by process
  prevResult,       \* result of the previous call of process (round 2)
  folderPath,       \* argument of scan
  listing,          \* what fs.readdir returns for the folder (directory entries)
  idx,              \* index of the next directory entry the generator handles
  results,          \* the ScanResults yielded so far, in order
  raised,           \* the error consuming the generator raised, "none" if none
  spc,              \* position inside DefaultSpecScanner.scan
  processCalls,     \* names of the files whose document was handed to specProcessor.process
  svc,              \* position inside FileSystemSpecService.initialize / refresh
  calls,            \* number of initialize / refresh calls made so far
  sourceFiles,      \* the entries of the source directory (basePath), in listing order
  catalog,          \* this.catalog
  specs,            \* this.specs: specId -> document
  specCache,        \* this.specCache: specId -> document
  diskCatalog,      \* the file _catalog/catalog.json
  diskSpecs,        \* the files _dereferenced/<specId>.json: specId -> document
  scanned,          \* the successful ScanResults of the current scanAndSave pass
  pendingOperations, \* indexes (into scanned) of the saveSpec calls not yet settled
  tempCatalog,      \* the catalog scanAndSave is building
  lateSaves,        \* saveSpec calls still in flight after their batch was rejected
  lateLoads,        \* loadSpec calls still in flight after their batch was rejected
  atCall,           \* this.catalog and this.specs when initialize / refresh was called
  atScan,           \* this.catalog and this.specs when scanAndSave was called
  loadFailed,       \* loadExistingCatalog returned false in the current call
  svcError,         \* the error the last call rejected with, "none" if none
  cache,            \* SimpleCache.cache: the Map's entries in insertion order
  maxSize,          \* SimpleCache.maxSize
  ttl,              \* SimpleCache.ttl
  now,              \* Date.now()
  call,             \* the last call of the cache or of loadSpec / saveSpec, and its outcome
  heap,             \* the schema objects of a dereferenced document and what their properties point to
  stack,            \* the processSchema calls that have not returned
  component,        \* the component schema mergeAllOfSchemas is at
  flat              \* where the flatten pass is, and how it ended

procVars == <<pc, round, pos, node, spec, specBefore, dereferencedSpec,
              processedSpec, prevResult>>
scanVars == <<folderPath, listing, idx, results, raised, spc, processCalls>>
svcVars == <<svc, calls, sourceFiles, catalog, specs, specCache, diskCatalog, diskSpecs,
             scanned, pendingOperations, tempCatalog, lateSaves, lateLoads, atCall,
             atScan, loadFailed, svcError>>
cacheVars == <<cache, maxSize, ttl, now, call>>
walkVars == <<heap, stack, component, flat>>
vars == <<procVars, scanVars, svcVars, cacheVars, walkVars>>

(***************************************************************************)
(* Bounds of the model.                                                    *)
(***************************************************************************)
MaxBranches == 2   \* longest allOf array drawn for the schema under study
MaxFiles == 3      \* longest directory listing drawn for a scan

(***************************************************************************)
(* Generic helpers on JSON values.                                         *)
(***************************************************************************)
Has(obj, key) == key \in DOMAIN obj

Without(obj, keys) == [k \in DOMAIN obj \ keys |-> obj[k]]

Range(seq) == {seq[i] : i \in 1..Len(seq)}

EmptyObject == <<>>

SeqsUpTo(S, n) == UNION {[1..m -> S] : m \in 0..n}

\* Array.from(new Set(list)): first occurrences, in order.
UniqueInOrder(list) ==
  LET F[i \in 0..Len(list)] ==
        IF i = 0 THEN <<>>
        ELSE IF list[i] \in Range(F[i-1]) THEN F[i-1]
        ELSE Append(F[i-1], list[i])
  IN F[Len(list)]

(***************************************************************************)
(* DefaultSpecProcessor: the flatten pass.                                 *)
(***************************************************************************)
isSchemaObject(schema) == ~Has(schema, "$ref")

\* Faulty variant: an overlapping property keeps the earlier branch's definition.
mergeOneFirstWins(merged, schema) ==
  IF ~isSchemaObject(schema) THEN merged
  ELSE
    LET m1 == IF Has(schema, "properties")
              THEN [merged EXCEPT !.properties = merged.properties @@ schema.properties]
              ELSE merged
        m2 == IF Has(schema, "required")
              THEN [m1 EXCEPT !.required = UniqueInOrder(m1.required \o schema.required)]
              ELSE m1
        others == DOMAIN schema \ {"properties", "required", "type"}
    IN [k \in DOMAIN m2 \cup others |-> IF k \in others THEN schema[k] ELSE m2[k]]

\* Faulty variant: the properties of a later schema replace the accumulated mapping.
mergeOneReplaceProps(merged, schema) ==
  IF ~isSchemaObject(schema) THEN merged
  ELSE
    LET m1 == IF Has(schema, "properties")
              THEN [merged EXCEPT !.properties = schema.properties]
              ELSE merged
        m2 == IF Has(schema, "required")
              THEN [m1 EXCEPT !.required = UniqueInOrder(m1.required \o schema.required)]
              ELSE m1
        others == DOMAIN schema \ {"properties", "required", "type"}
    IN [k \in DOMAIN m2 \cup others |-> IF k \in others THEN schema[k] ELSE m2[k]]

\* Faulty variant: required lists are concatenated without removing duplicates.
mergeOneKeepDuplicates(merged, schema) ==
  IF ~isSchemaObject(schema) THEN merged
  ELSE
    LET m1 == IF Has(schema, "properties")
              THEN [merged EXCEPT !.properties = schema.properties @@ merged.properties]
              ELSE merged
        m2 == IF Has(schema, "required")
              THEN [m1 EXCEPT !.required = m1.required \o schema.required]
              ELSE m1
        others == DOMAIN schema \ {"properties", "required", "type"}
    IN [k \in DOMAIN m2 \cup others |-> IF k \in others THEN schema[k] ELSE m2[k]]

\* Faulty variant: a declared type is copied like any other key.
mergeOneKeepType(merged, schema) ==
  IF ~isSchemaObject(schema) THEN merged
  ELSE
    LET m1 == IF Has(schema, "properties")
              THEN [merged EXCEPT !.properties = schema.properties @@ merged.properties]
              ELSE merged
        m2 == IF Has(schema, "required")
              THEN [m1 EXCEPT !.required = UniqueInOrder(m1.required \o schema.required)]
              ELSE m1
        others == DOMAIN schema \ {"properties", "required"}
    IN [k \in DOMAIN m2 \cup others |-> IF k \in others THEN schema[k] ELSE m2[k]]

\* Faulty variant: a schema that carries $ref is merged like any other.
mergeOneWithRefs(merged, schema) ==
  LET m1 == IF Has(schema, "properties")
            THEN [merged EXCEPT !.properties = schema.properties @@ merged.properties]
            ELSE merged
      m2 == IF Has(schema, "required")
            THEN [m1 EXCEPT !.required = UniqueInOrder(m1.required \o schema.required)]
            ELSE m1
      others == DOMAIN schema \ {"properties", "required", "type"}
  IN [k \in DOMAIN m2 \cup others |-> IF k \in others THEN schema[k] ELSE m2[k]]

\* One iteration of the loop of mergeSchemas over `schemas`.
mergeOne(merged, schema) ==
  IF ~isSchemaObject(schema) THEN merged
  ELSE
    LET m1 == IF Has(schema, "properties")
              THEN [merged EXCEPT !.properties = schema.properties @@ merged.properties]
              ELSE merged
        m2 == IF Has(schema, "required")
              THEN [m1 EXCEPT !.required = UniqueInOrder(m1.required \o schema.required)]
              ELSE m1
        others == DOMAIN schema \ {"properties", "required", "type"}
    IN [k \in DOMAIN m2 \cup others |-> IF k \in others THEN schema[k] ELSE m2[k]]

mergeSchemas(schemas) ==
  LET start == [type |-> "object", properties |-> EmptyObject, required |-> <<>>]
      F[i \in 0..Len(schemas)] ==
        IF i = 0 THEN start ELSE mergeOne(F[i-1], schemas[i])
      merged == F[Len(schemas)]
  IN IF Len(merged.required) = 0 THEN Without(merged, {"required"}) ELSE merged

RECURSIVE processSchema(_)

\* Faulty variant: the children of a node that carries allOf are not processed.
processNestedSkipComposed(schema) ==
  IF Has(schema, "allOf") THEN schema
  ELSE
    LET s1 == IF Has(schema, "properties")
              THEN [schema EXCEPT !.properties =
                      [k \in DOMAIN schema.properties |-> processSchema(schema.properties[k])]]
              ELSE schema
    IN IF Has(s1, "type") /\ s1.type = "array" /\ Has(s1, "items")
       THEN [s1 EXCEPT !.items = processSchema(s1.items)]
       ELSE s1

\* "Process nested schemas first": properties, then items of an array.
processNested(schema) ==
  LET s1 == IF Has(schema, "properties")
            THEN [schema EXCEPT !.properties =
                    [k \in DOMAIN schema.properties |-> processSchema(schema.properties[k])]]
            ELSE schema
  IN IF Has(s1, "type") /\ s1.type = "array" /\ Has(s1, "items")
     THEN [s1 EXCEPT !.items = processSchema(s1.items)]
     ELSE s1

\* Faulty variant: an empty allOf is merged like a non-empty one.
stripEmptyAllOfByMerge(schema) == mergeSchemas(<<Without(schema, {"allOf"})>>)

\* "If allOf is empty, remove it and return the rest of the schema".
stripEmptyAllOf(schema) == Without(schema, {"allOf"})

processSchema(schema) ==
  IF ~isSchemaObject(schema) THEN schema
  ELSE
    LET s == processNested(schema)
    IN IF ~Has(s, "allOf") THEN s
       ELSE IF Len(s.allOf) = 0 THEN stripEmptyAllOf(s)
       ELSE
         LET processedSchemas == [i \in 1..Len(s.allOf) |-> processSchema(s.allOf[i])]
             mergedSchema == mergeSchemas(processedSchemas)
             rest == Without(s, {"allOf"})
         IN mergeSchemas(<<mergedSchema, rest>>)

(***************************************************************************)
(* DefaultSpecProcessor: the schema positions of a document.               *)
(***************************************************************************)
operations == {"get", "put", "post", "delete", "options", "head", "patch", "trace"}

\* for (const mediaType of Object.values(content)) if (mediaType.schema) ...
processContent(content) ==
  [m \in DOMAIN content |->
     IF Has(content[m], "schema")
     THEN [content[m] EXCEPT !.schema = processSchema(content[m].schema)]
     ELSE content[m]]

\* "Process request body schema"
processRequestBody(operation) ==
  IF Has(operation, "requestBody") /\ Has(operation.requestBody, "content")
  THEN [operation EXCEPT !.requestBody.content =
          processContent(operation.requestBody.content)]
  ELSE operation

\* "Process response schemas"
processResponses(operation) ==
  IF Has(operation, "responses")
  THEN [operation EXCEPT !.responses =
          [c \in DOMAIN operation.responses |->
             IF Has(operation.responses[c], "content")
             THEN [operation.responses[c] EXCEPT !.content =
                     processContent(operation.responses[c].content)]
             ELSE operation.responses[c]]]
  ELSE operation

\* "Process parameter schemas"
processParameters(operation) ==
  IF Has(operation, "parameters")
  THEN [operation EXCEPT !.parameters =
          [i \in 1..Len(operation.parameters) |->
             IF Has(operation.parameters[i], "schema")
             THEN [operation.parameters[i] EXCEPT
                     !.schema = processSchema(operation.parameters[i].schema)]
             ELSE operation.parameters[i]]]
  ELSE operation

processOperation(operation) ==
  processParameters(processResponses(processRequestBody(operation)))

processPathItem(pathItem) ==
  [k \in DOMAIN pathItem |->
     IF k \in operations THEN processOperation(pathItem[k]) ELSE pathItem[k]]

\* "Process components schemas if they exist"
processComponents(doc) ==
  IF Has(doc, "components") /\ Has(doc.components, "schemas")
  THEN [doc EXCEPT !.components.schemas =
          [k \in DOMAIN doc.components.schemas |->
             processSchema(doc.components.schemas[k])]]
  ELSE doc

\* "Process schemas in paths"
processPaths(doc) ==
  IF Has(doc, "paths")
  THEN [doc EXCEPT !.paths = [p \in DOMAIN doc.paths |-> processPathItem(doc.paths[p])]]
  ELSE doc

\* Works on a structuredClone of its argument: the argument itself is not touched.
\* processSchema writes the processed children back into the node it is given; a
\* node that the dereference pass shares between two positions is therefore seen
\* a second time with its children already processed, which yields the same value
\* as processing the original node (C6), so positions are processed by value here.
mergeAllOfSchemas(doc) == processPaths(processComponents(doc))

(***************************************************************************)
(* The dereference pass: $RefParser.dereference(spec, {continueOnError}).  *)
(* Given an object, the parser resolves the pointers inside that object    *)
(* and returns it; a pointer that does not resolve is left in place.       *)
(***************************************************************************)
PointerOf == [Shared |-> "#/components/schemas/Shared",
              Missing |-> "#/components/schemas/Missing"]

Resolvable(root, ref) ==
  /\ Has(root, "components")
  /\ Has(root.components, "schemas")
  /\ \E n \in DOMAIN PointerOf : PointerOf[n] = ref /\ Has(root.components.schemas, n)

Target(root, ref) ==
  root.components.schemas[CHOOSE n \in DOMAIN PointerOf : PointerOf[n] = ref]

RECURSIVE derefSchema(_, _)
derefSchema(root, s) ==
  IF Has(s, "$ref")
  THEN IF Resolvable(root, s["$ref"]) THEN derefSchema(root, Target(root, s["$ref"])) ELSE s
  ELSE [k \in DOMAIN s |->
          IF k = "properties"
          THEN [p \in DOMAIN s[k] |-> derefSchema(root, s[k][p])]
          ELSE IF k \in {"items", "additionalProperties"}
          THEN derefSchema(root, s[k])
          ELSE IF k = "allOf"
          THEN [i \in 1..Len(s[k]) |-> derefSchema(root, s[k][i])]
          ELSE s[k]]

derefContent(root, content) ==
  [m \in DOMAIN content |->
     IF Has(content[m], "schema")
     THEN [content[m] EXCEPT !.schema = derefSchema(root, content[m].schema)]
     ELSE content[m]]

derefOperation(root, operation) ==
  LET o1 == IF Has(operation, "requestBody") /\ Has(operation.requestBody, "content")
            THEN [operation EXCEPT !.requestBody.content =
                    derefContent(root, operation.requestBody.content)]
            ELSE operation
      o2 == IF Has(o1, "responses")
            THEN [o1 EXCEPT !.responses =
                    [c \in DOMAIN o1.responses |->
                       IF Has(o1.responses[c], "content")
                       THEN [o1.responses[c] EXCEPT !.content =
                               derefContent(root, o1.responses[c].content)]
                       ELSE o1.responses[c]]]
            ELSE o1
  IN IF Has(o2, "parameters")
     THEN [o2 EXCEPT !.parameters =
             [i \in 1..Len(o2.parameters) |->
                IF Has(o2.parameters[i], "schema")
                THEN [o2.parameters[i] EXCEPT !.schema =
                        derefSchema(root, o2.parameters[i].schema)]
                ELSE o2.parameters[i]]]
     ELSE o2

dereference(doc) ==
  LET d1 == IF Has(doc, "components") /\ Has(doc.components, "schemas")
            THEN [doc EXCEPT !.components.schemas =
                    [k \in DOMAIN doc.components.schemas |->
                       derefSchema(doc, doc.components.schemas[k])]]
            ELSE doc
  IN IF Has(d1, "paths")
     THEN [d1 EXCEPT !.paths =
             [p \in DOMAIN d1.paths |->
                [k \in DOMAIN d1.paths[p] |->
                   IF k \in operations
                   THEN derefOperation(doc, d1.paths[p][k])
                   ELSE d1.paths[p][k]]]]
     ELSE d1

(***************************************************************************)
(* The schemas the processor is run on.  Branches are the members of the   *)
(* allOf array of the schema under study, Siblings are the keys it carries *)
(* next to allOf.                                                          *)
(***************************************************************************)
StrS == [type |-> "string"]
NumS == [type |-> "number"]
IntS == [type |-> "integer", minimum |-> 0]
MissingRef == ("$ref" :> PointerOf.Missing)
SharedRef == ("$ref" :> PointerOf.Shared)

Person == [type |-> "object",
           properties |-> [name |-> StrS, age |-> NumS],
           required |-> <<"name">>]
Contact == [type |-> "object",
            properties |-> [email |-> StrS, age |-> IntS],
            required |-> <<"email", "name">>,
            description |-> "contact"]
Ident == [properties |-> [id |-> IntS],
          required |-> <<"id", "id">>,
          description |-> "base"]
Text == [type |-> "string", description |-> "text"]
Composed == [allOf |-> <<Person, Ident>>, required |-> <<"age">>]
Tagged == [type |-> "object", properties |-> [tag |-> [allOf |-> <<Ident>>]]]
Listed == [type |-> "array", items |-> [allOf |-> <<Person>>]]

Branches == {Person, Contact, Ident, Text, Composed, Tagged, Listed, MissingRef}

Siblings ==
  { EmptyObject,
    [description |-> "own", deprecated |-> TRUE],
    [properties |-> [age |-> StrS], required |-> <<"age", "name">>],
    [properties |-> [extra |-> [allOf |-> <<Person, Contact>>]]],
    [type |-> "array", items |-> [allOf |-> <<Ident>>]],
    [items |-> [allOf |-> <<Ident>>]],
    [additionalProperties |-> [allOf |-> <<Person>>]],
    [type |-> "string"],
    [type |-> "object", properties |-> EmptyObject, required |-> <<>>] }

Nodes ==
  Siblings \cup
  {sib @@ ("allOf" :> branches) :
     sib \in Siblings, branches \in SeqsUpTo(Branches, MaxBranches)}

Positions == {"component", "requestBody", "response", "parameter"}

Info == [title |-> "Test API", version |-> "1.0.0"]
MediaJson(schema) == ("application/json" :> [schema |-> schema])
OkResponse == ("200" :> [description |-> "ok"])

\* A document with schema n at position p.  With p = "component" the request
\* body refers to the component by an internal pointer.
MakeDoc(p, n) ==
  IF p = "component" THEN
    [openapi |-> "3.0.0", info |-> Info,
     paths |-> ("/items" :> [post |-> [requestBody |-> [content |-> MediaJson(SharedRef)],
                                       responses |-> OkResponse]]),
     components |-> [schemas |-> ("Shared" :> n)]]
  ELSE IF p = "requestBody" THEN
    [openapi |-> "3.0.0", info |-> Info,
     paths |-> ("/items" :> [summary |-> "items",
                             post |-> [requestBody |-> [content |-> MediaJson(n)],
                                       responses |-> OkResponse]])]
  ELSE IF p = "response" THEN
    [openapi |-> "3.0.0", info |-> Info,
     paths |-> ("/items" :> [get |-> [responses |->
                  ("200" :> [description |-> "ok", content |-> MediaJson(n)])]])]
  ELSE
    [openapi |-> "3.0.0", info |-> Info,
     paths |-> ("/items" :> [get |-> [parameters |-> <<[name |-> "q", schema |-> n]>>,
                                      responses |-> OkResponse]])]

\* The schema found at position p of a document.
SchemaAt(doc, p) ==
  IF p = "component" THEN doc.components.schemas.Shared
  ELSE IF p = "requestBody"
  THEN doc.paths["/items"].post.requestBody.content["application/json"].schema
  ELSE IF p = "response"
  THEN doc.paths["/items"].get.responses["200"].content["application/json"].schema
  ELSE doc.paths["/items"].get.parameters[1].schema

\* Every schema position of a document: components.schemas and the parameter,
\* request-body and response media-type schemas of its operations.
ContentSchemas(content) ==
  {content[m].schema : m \in {x \in DOMAIN content : Has(content[x], "schema")}}

OperationSchemas(operation) ==
  (IF Has(operation, "requestBody") /\ Has(operation.requestBody, "content")
   THEN ContentSchemas(operation.requestBody.content) ELSE {})
  \cup
  (IF Has(operation, "responses")
   THEN UNION {ContentSchemas(operation.responses[c].content) :
                 c \in {x \in DOMAIN operation.responses :
                          Has(operation.responses[x], "content")}}
   ELSE {})
  \cup
  (IF Has(operation, "parameters")
   THEN {operation.parameters[i].schema :
           i \in {j \in 1..Len(operation.parameters) : Has(operation.parameters[j], "schema")}}
   ELSE {})

PositionSchemas(doc) ==
  (IF Has(doc, "components") /\ Has(doc.components, "schemas")
   THEN {doc.components.schemas[k] : k \in DOMAIN doc.components.schemas} ELSE {})
  \cup
  (IF Has(doc, "paths")
   THEN UNION {UNION {OperationSchemas(doc.paths[p][k]) :
                        k \in operations \cap DOMAIN doc.paths[p]} :
                 p \in DOMAIN doc.paths}
   ELSE {})

(***************************************************************************)
(* DefaultSpecProcessor.process as a state machine.                        *)
(***************************************************************************)
\* The service has not been constructed.
CacheIdle ==
  /\ cache = <<>>
  /\ maxSize = 1
  /\ ttl = 1
  /\ now = 0
  /\ call = [op |-> "none"]

\* No flatten pass over a schema graph is under way.
WalkIdle ==
  /\ heap = <<>>
  /\ stack = <<>>
  /\ component = 0
  /\ flat = "idle"

ServiceIdle ==
  /\ svc = "idle"
  /\ calls = 0
  /\ sourceFiles = <<>>
  /\ catalog = <<>>
  /\ specs = EmptyObject
  /\ specCache = EmptyObject
  /\ diskCatalog = [state |-> "absent"]
  /\ diskSpecs = EmptyObject
  /\ scanned = <<>>
  /\ pendingOperations = {}
  /\ tempCatalog = <<>>
  /\ lateSaves = {}
  /\ lateLoads = {}
  /\ atCall = [catalog |-> <<>>, specs |-> EmptyObject]
  /\ atScan = [catalog |-> <<>>, specs |-> EmptyObject]
  /\ loadFailed = FALSE
  /\ svcError = "none"

ScanIdle ==
  /\ folderPath = ""
  /\ listing = <<>>
  /\ idx = 0
  /\ results = <<>>
  /\ raised = "none"
  /\ spc = "idle"
  /\ processCalls = <<>>

Init ==
  /\ pos \in Positions
  /\ node \in Nodes
  /\ spec = MakeDoc(pos, node)
  /\ specBefore = spec
  /\ dereferencedSpec = EmptyObject
  /\ processedSpec = EmptyObject
  /\ prevResult = EmptyObject
  /\ round = 1
  /\ pc = "called"
  /\ ScanIdle
  /\ ServiceIdle
  /\ CacheIdle
  /\ WalkIdle

\* await $RefParser.dereference(spec, ...): the parser works on the object it is
\* given, so the caller's object now holds the resolved tree.
Dereference ==
  /\ pc = "called"
  /\ spec' = dereference(spec)
  /\ dereferencedSpec' = spec'
  /\ pc' = "dereferenced"
  /\ UNCHANGED <<round, pos, node, specBefore, processedSpec, prevResult, scanVars, svcVars, cacheVars, walkVars>>

\* A hard dereferencing failure rejects the promise of process.
DereferenceFails ==
  /\ pc = "called"
  /\ pc' = "failed"
  /\ UNCHANGED <<round, pos, node, spec, specBefore, dereferencedSpec, processedSpec,
                 prevResult, scanVars, svcVars, cacheVars, walkVars>>

\* return this.mergeAllOfSchemas(dereferencedSpec)
MergeAllOf ==
  /\ pc = "dereferenced"
  /\ processedSpec' = mergeAllOfSchemas(dereferencedSpec)
  /\ pc' = "done"
  /\ UNCHANGED <<round, pos, node, spec, specBefore, dereferencedSpec, prevResult, scanVars, svcVars, cacheVars, walkVars>>

\* The caller hands the processed document to process again.
ProcessAgain ==
  /\ pc = "done"
  /\ round = 1
  /\ round' = 2
  /\ prevResult' = processedSpec
  /\ spec' = processedSpec
  /\ specBefore' = processedSpec
  /\ dereferencedSpec' = EmptyObject
  /\ processedSpec' = EmptyObject
  /\ pc' = "called"
  /\ UNCHANGED <<pos, node, scanVars, svcVars, cacheVars, walkVars>>

Next == Dereference \/ DereferenceFails \/ MergeAllOf \/ ProcessAgain

Spec == Init /\ [][Next]_vars

\* Schemas in which a pointer that does not resolve keeps keys next to it: as the
\* schema under study, and as a branch of its allOf.
GhostRef ==
  MissingRef @@ [properties |-> [ghost |-> StrS], required |-> <<"ghost">>,
                 description |-> "ghost", allOf |-> <<Person>>]

RefSiblings ==
  { EmptyObject,
    [description |-> "own", deprecated |-> TRUE],
    [type |-> "object", properties |-> [age |-> StrS], required |-> <<"age">>] }

RefNodes ==
  {MissingRef @@ sib : sib \in RefSiblings}
  \cup
  {sib @@ ("allOf" :> branches) :
     sib \in {MissingRef @@ x : x \in RefSiblings} \cup RefSiblings,
     branches \in SeqsUpTo({Person, Ident, GhostRef, MissingRef}, MaxBranches) \ {<<>>}}

\* process called on a document whose schema under study is one of RefNodes.
RefInit ==
  /\ pos \in Positions
  /\ node \in RefNodes
  /\ spec = MakeDoc(pos, node)
  /\ specBefore = spec
  /\ dereferencedSpec = EmptyObject
  /\ processedSpec = EmptyObject
  /\ prevResult = EmptyObject
  /\ round = 1
  /\ pc = "called"
  /\ ScanIdle
  /\ ServiceIdle
  /\ CacheIdle
  /\ WalkIdle

RefSpec == RefInit /\ [][Next]_vars

TypeOK ==
  /\ pc \in {"idle", "called", "dereferenced", "done", "failed"}
  /\ round \in {1, 2}
  /\ spc \in {"idle", "iterating", "raised", "done"}
  /\ raised \in {"none", "Error", "SpecScanError"}

(***************************************************************************)
(* Vocabulary of the claims about the flatten pass.                        *)
(***************************************************************************)
Done1 == pc = "done" /\ round = 1

\* The schema under study as process returned it.
Flat == SchemaAt(processedSpec, pos)

IsComposition(n) == isSchemaObject(n) /\ Has(n, "allOf") /\ Len(n.allOf) >= 1

PropsOf(s) == IF Has(s, "properties") THEN s.properties ELSE EmptyObject

RequiredOf(s) == IF Has(s, "required") THEN s.required ELSE <<>>

\* Properties and required list of the i-th branch, the branch being flattened itself.
BranchProps(n, i) == PropsOf(processSchema(n.allOf[i]))

BranchRequired(n, i) == RequiredOf(processSchema(n.allOf[i]))

\* The node's own keys (its siblings of allOf), nested schemas flattened.
SiblingRest(n) == processSchema(Without(n, {"allOf"}))

BranchPropNames(n) == UNION {DOMAIN BranchProps(n, i) : i \in 1..Len(n.allOf)}

BranchesDisjoint(n) ==
  \A i, j \in 1..Len(n.allOf) :
    i < j => DOMAIN BranchProps(n, i) \cap DOMAIN BranchProps(n, j) = {}

LastDefining(n, p) ==
  CHOOSE i \in 1..Len(n.allOf) :
    /\ p \in DOMAIN BranchProps(n, i)
    /\ \A j \in 1..Len(n.allOf) : p \in DOMAIN BranchProps(n, j) => j <= i

UnionOfBranchProps(n) ==
  [p \in BranchPropNames(n) |-> BranchProps(n, LastDefining(n, p))[p]]

UnionOfBranchRequired(n) ==
  UNION {Range(BranchRequired(n, i)) : i \in 1..Len(n.allOf)}

\* Required lists of all branches, then the node's own, one after the other.
AllRequired(n) ==
  LET C[i \in 0..Len(n.allOf)] ==
        IF i = 0 THEN <<>> ELSE C[i-1] \o BranchRequired(n, i)
  IN C[Len(n.allOf)] \o RequiredOf(n)

FirstIndex(seq, x) ==
  CHOOSE i \in 1..Len(seq) : seq[i] = x /\ \A j \in 1..(i-1) : seq[j] # x

RECURSIVE HasAllOfInside(_)
\* Some node carrying allOf is reachable from s through a schema-valued keyword.
HasAllOfInside(s) ==
  \/ Has(s, "allOf")
  \/ Has(s, "properties") /\ \E p \in DOMAIN s.properties : HasAllOfInside(s.properties[p])
  \/ Has(s, "items") /\ HasAllOfInside(s.items)
  \/ Has(s, "additionalProperties") /\ HasAllOfInside(s.additionalProperties)

(***************************************************************************)
(* Claims about DefaultSpecProcessor.                                      *)
(***************************************************************************)

\* C1: after process returns, no schema node carrying allOf remains in any schema
\* position of the document (components.schemas, parameter, request-body and
\* response media-type schemas), at any depth and through any schema-valued keyword.
C1_NoAllOfRemains ==
  pc = "done" => \A s \in PositionSchemas(processedSpec) : ~HasAllOfInside(s)

\* C2 as stated: a node whose allOf branches have pairwise disjoint property names
\* flattens to one object schema whose properties are exactly the union of the
\* branches' properties and whose required is the union of the branches' required.
C2_UnionOfBranchesOnly ==
  Done1 /\ IsComposition(node) /\ BranchesDisjoint(node) =>
    /\ ~Has(Flat, "allOf")
    /\ Flat.type = "object"
    /\ Flat.properties = UnionOfBranchProps(node)
    /\ Range(RequiredOf(Flat)) = UnionOfBranchRequired(node)

\* C2 amended: when the branches and the node's own sibling properties have pairwise
\* disjoint property names, the flattened node is one object schema whose properties
\* are exactly the union of the branches' properties and the node's own, and whose
\* required is the union of the branches' required lists and the node's own.
C2_UnionWithSiblings ==
  Done1 /\ IsComposition(node) /\ BranchesDisjoint(node)
        /\ BranchPropNames(node) \cap DOMAIN PropsOf(node) = {} =>
    /\ ~Has(Flat, "allOf")
    /\ Flat.type = "object"
    /\ Flat.properties = UnionOfBranchProps(node) @@ PropsOf(SiblingRest(node))
    /\ Range(RequiredOf(Flat)) = UnionOfBranchRequired(node) \cup Range(RequiredOf(node))

C2_Witness ==
  /\ Done1 /\ IsComposition(node) /\ BranchesDisjoint(node)
  /\ BranchPropNames(node) \cap DOMAIN PropsOf(node) = {}
  /\ Len(node.allOf) = 2
  /\ \A i \in 1..2 : DOMAIN BranchProps(node, i) # {} /\ BranchRequired(node, i) # <<>>
  /\ DOMAIN PropsOf(node) # {}

\* C3 as stated: a property defined in several branches takes the whole definition
\* of the latest branch, and a property or any other key defined as a sibling of
\* allOf overrides the value produced by merging the branches.
C3_SiblingOverridesEveryKey ==
  Done1 /\ IsComposition(node) =>
    LET rest == SiblingRest(node) IN
    /\ \A p \in BranchPropNames(node) \ DOMAIN PropsOf(rest) :
         /\ p \in DOMAIN Flat.properties
         /\ Flat.properties[p] = BranchProps(node, LastDefining(node, p))[p]
    /\ \A p \in DOMAIN PropsOf(rest) :
         p \in DOMAIN Flat.properties /\ Flat.properties[p] = rest.properties[p]
    /\ \A k \in DOMAIN rest \ {"properties"} : Has(Flat, k) /\ Flat[k] = rest[k]

\* C3 amended: a property defined in several branches takes the whole definition of
\* the latest branch; a sibling property overrides it, and so does any other sibling
\* key except type (the result is always "object") and required (which is unioned).
C3_LastBranchThenSibling ==
  Done1 /\ IsComposition(node) =>
    LET rest == SiblingRest(node) IN
    /\ \A p \in BranchPropNames(node) \ DOMAIN PropsOf(rest) :
         /\ p \in DOMAIN Flat.properties
         /\ Flat.properties[p] = BranchProps(node, LastDefining(node, p))[p]
    /\ \A p \in DOMAIN PropsOf(rest) :
         p \in DOMAIN Flat.properties /\ Flat.properties[p] = rest.properties[p]
    /\ \A k \in DOMAIN rest \ {"properties", "required", "type"} :
         Has(Flat, k) /\ Flat[k] = rest[k]

C3_Witness ==
  /\ Done1 /\ IsComposition(node) /\ Len(node.allOf) = 2
  /\ \E p \in DOMAIN BranchProps(node, 1) \cap DOMAIN BranchProps(node, 2) :
       /\ BranchProps(node, 1)[p] # BranchProps(node, 2)[p]
       /\ p \notin DOMAIN PropsOf(node)
  /\ Has(node, "description")
  /\ Has(processSchema(node.allOf[2]), "description")
  /\ processSchema(node.allOf[2]).description # node.description

\* C4: the required list of a flattened allOf node holds exactly the names required
\* by some branch or by the node itself, each once, in order of first occurrence;
\* when there is none the result has no required key.
C4_RequiredUnion ==
  Done1 /\ IsComposition(node) =>
    LET all == AllRequired(node)
        req == RequiredOf(Flat)
    IN /\ Range(req) = Range(all)
       /\ \A i, j \in 1..Len(req) : i < j => req[i] # req[j]
       /\ \A i, j \in 1..Len(req) :
            i < j => FirstIndex(all, req[i]) < FirstIndex(all, req[j])
       /\ Has(Flat, "required") <=> (all # <<>>)

C4_Witness ==
  /\ Done1 /\ IsComposition(node) /\ Len(node.allOf) = 2
  /\ Range(BranchRequired(node, 1)) \cap Range(BranchRequired(node, 2)) # {}
  /\ Range(RequiredOf(node)) \cap Range(BranchRequired(node, 1)) # {}
  /\ Range(RequiredOf(node)) \ UnionOfBranchRequired(node) # {}
  /\ Len(Flat.required) = 3

\* C5 as stated: flattening a schema whose allOf is empty returns the schema with
\* only the allOf key removed, every other key keeping its value unaltered.
C5_OnlyAllOfRemoved ==
  Done1 /\ isSchemaObject(node) /\ Has(node, "allOf") /\ Len(node.allOf) = 0 =>
    Flat = Without(node, {"allOf"})

\* C5 amended: flattening a schema whose allOf is empty returns a schema with exactly
\* the other keys of the node (none added, none dropped); each keeps its value, except
\* that the schemas under properties and the items schema of an array are flattened.
C5_EmptyAllOfFrame ==
  Done1 /\ isSchemaObject(node) /\ Has(node, "allOf") /\ Len(node.allOf) = 0 =>
    /\ DOMAIN Flat = DOMAIN node \ {"allOf"}
    /\ \A k \in DOMAIN Flat \ {"properties", "items"} : Flat[k] = node[k]
    /\ Has(node, "properties") =>
         /\ DOMAIN Flat.properties = DOMAIN node.properties
         /\ \A p \in DOMAIN node.properties :
              Flat.properties[p] = processSchema(node.properties[p])
    /\ Has(node, "items") =>
         Flat.items = IF Has(node, "type") /\ node.type = "array"
                      THEN processSchema(node.items) ELSE node.items

C5_Witness ==
  /\ Done1 /\ Has(node, "allOf") /\ Len(node.allOf) = 0
  /\ Has(node, "type") /\ Has(node, "properties") /\ Has(node, "required")
  /\ node.required = <<>>
  /\ Flat = [type |-> "object", properties |-> EmptyObject, required |-> <<>>]

\* C36: a flattened node with a non-empty allOf has type "object" and a properties
\* mapping, whatever type its branches or the node itself declare.
C36_AlwaysObject ==
  Done1 /\ IsComposition(node) =>
    /\ Has(Flat, "type") /\ Flat.type = "object"
    /\ Has(Flat, "properties")

C36_Witness ==
  /\ Done1 /\ IsComposition(node)
  /\ Has(node, "type") /\ node.type = "array"
  /\ \E i \in 1..Len(node.allOf) :
       Has(node.allOf[i], "type") /\ node.allOf[i].type = "string"
  /\ Flat.type = "object" /\ Flat.properties = EmptyObject

\* The schema under study as the dereference pass left it.
Dereferenced == SchemaAt(dereferencedSpec, pos)

\* An empty schema in the place of every branch that carries $ref.
WithoutRefBranches(n) ==
  [n EXCEPT !.allOf = [i \in 1..Len(n.allOf) |->
                         IF isSchemaObject(n.allOf[i]) THEN n.allOf[i] ELSE EmptyObject]]

\* C37: a node that carries $ref after dereferencing comes out of the flatten
\* pass as it went in, allOf included; a branch that carries $ref adds nothing to
\* the merged result, which is what it would be with an empty schema in the
\* branch's place and has no $ref key.
C37_RefNodesUntouched ==
  Done1 =>
    /\ Has(Dereferenced, "$ref") => Flat = Dereferenced
    /\ IsComposition(Dereferenced) =>
         /\ Flat = processSchema(WithoutRefBranches(Dereferenced))
         /\ ~Has(Flat, "$ref")
         /\ (\A i \in 1..Len(Dereferenced.allOf) :
               ~isSchemaObject(Dereferenced.allOf[i])) =>
              /\ Flat.properties = PropsOf(SiblingRest(Dereferenced))
              /\ RequiredOf(Flat) = UniqueInOrder(RequiredOf(Dereferenced))

C37_Witness ==
  /\ Done1 /\ IsComposition(Dereferenced) /\ Len(Dereferenced.allOf) = 2
  /\ Dereferenced.allOf[1] = Person /\ Dereferenced.allOf[2] = GhostRef
  /\ DOMAIN Flat.properties = {"name", "age"}
  /\ ~Has(Flat, "description")

\* C6: flattening is idempotent: running the pass on its own result returns a
\* document equal to that result.
C6_Idempotent ==
  pc = "done" /\ round = 2 => processedSpec = prevResult

C6_Witness ==
  /\ pc = "done" /\ round = 2
  /\ IsComposition(node)
  /\ HasAllOfInside(SiblingRest(node)) \/ HasAllOfInside(node.allOf[1])
  /\ prevResult # MakeDoc(pos, node)

\* C7: process never mutates the caller's document: after the call the input object
\* is deep-equal to what it was before the call.
C7_InputNotMutated ==
  pc = "done" => spec = specBefore

(***************************************************************************)
(* DefaultSpecScanner.  File names and spec ids are sequences of           *)
(* characters, so that path.extname and toLowerCase are computed.          *)
(* A JSON value whose type the scanner tests is tagged: [t |-> "object",   *)
(* v |-> ...], [t |-> "null"], [t |-> "string", v |-> ...].                *)
(***************************************************************************)
JObj(v) == [t |-> "object", v |-> v]
JNull == [t |-> "null"]
JStr(v) == [t |-> "string", v |-> v]

\* String.prototype.toLowerCase, on the letters that occur in the file names,
\* the operation texts and the search queries.
LowerChar(c) ==
  CASE c = "J" -> "j" [] c = "S" -> "s" [] c = "O" -> "o" [] c = "N" -> "n"
    [] c = "Y" -> "y" [] c = "M" -> "m" [] c = "L" -> "l" [] c = "A" -> "a"
    [] c = "I" -> "i" [] c = "R" -> "r" [] c = "C" -> "c" [] c = "E" -> "e"
    [] c = "D" -> "d" [] c = "T" -> "t"
    [] OTHER -> c

toLowerCase(str) == [i \in 1..Len(str) |-> LowerChar(str[i])]

\* path.extname of a name without directory part: from the last dot to the end;
\* empty when there is no dot, when the only dot is the first character, and for "..".
extname(name) ==
  LET dots == {i \in 1..Len(name) : name[i] = "."} IN
  IF dots = {} THEN <<>>
  ELSE LET d == CHOOSE i \in dots : \A j \in dots : j <= i IN
       IF d = 1 \/ (Len(name) = 2 /\ dots = {1, 2}) THEN <<>>
       ELSE SubSeq(name, d, Len(name))

ExtJson == <<".", "j", "s", "o", "n">>
ExtYaml == <<".", "y", "a", "m", "l">>
ExtYml == <<".", "y", "m", "l">>

getFileType(filePath) ==
  LET ext == toLowerCase(extname(filePath)) IN
  IF ext = ExtJson THEN "json"
  ELSE IF ext = ExtYaml \/ ext = ExtYml THEN "yaml"
  ELSE "invalid"

\* swagger2openapi.convertObj with {patch, warnOnly}: the 2.0 document in the
\* 3.0 shape; definitions become components.schemas.
convertObj(doc) ==
  [k \in (DOMAIN doc \ {"swagger", "definitions"}) \cup {"openapi", "components"} |->
     IF k = "openapi" THEN "3.0.0"
     ELSE IF k = "components"
     THEN [schemas |-> IF Has(doc, "definitions") THEN doc.definitions ELSE EmptyObject]
     ELSE doc[k]]

\* parseSpec: [ok |-> TRUE, value |-> parsed and converted] or [ok |-> FALSE].
\* content.syntax says what the text is: "json" (which is YAML as well), "yaml"
\* (YAML only) or "none" (neither).
parseSpec(content, fileType) ==
  LET parses == IF fileType = "json" THEN content.syntax = "json"
                ELSE content.syntax \in {"json", "yaml"}
      parsedContent == content.value
  IN IF ~parses THEN [ok |-> FALSE, message |-> "Failed to parse content"]
     ELSE IF parsedContent.t = "object" /\ Has(parsedContent.v, "swagger")
             /\ parsedContent.v.swagger = "2.0"
     THEN IF content.convertible
          THEN [ok |-> TRUE, value |-> JObj(convertObj(parsedContent.v))]
          ELSE [ok |-> FALSE, message |-> "Failed to convert Swagger 2.0 spec"]
     ELSE [ok |-> TRUE, value |-> parsedContent]

\* Faulty variant: any info that is not null passes.
isValidSpecObjectAnyInfo(specObject) ==
  /\ specObject.t = "object"
  /\ Has(specObject.v, "info")
  /\ specObject.v.info.t # "null"

isValidSpecObject(specObject) ==
  /\ specObject.t = "object"
  /\ Has(specObject.v, "info")
  /\ specObject.v.info.t = "object"

\* A file name without its extension (the default id README.md describes).
withoutExtension(name) == SubSeq(name, 1, Len(name) - Len(extname(name)))

\* Faulty variant: the default id is the file name without its extension.
extractSpecIdBaseName(doc, defaultId) ==
  IF doc.info.t = "object" /\ Has(doc.info.v, "x-spec-id") /\ doc.info.v["x-spec-id"] # <<>>
  THEN doc.info.v["x-spec-id"]
  ELSE withoutExtension(defaultId)

\* (spec.info)['x-spec-id'] || defaultId: an empty id is falsy, and a string has
\* no such property.
extractSpecId(doc, defaultId) ==
  IF doc.info.t = "object" /\ Has(doc.info.v, "x-spec-id") /\ doc.info.v["x-spec-id"] # <<>>
  THEN doc.info.v["x-spec-id"]
  ELSE defaultId

\* this.specProcessor.process(specObject)
process(doc) == mergeAllOfSchemas(dereference(doc))

\* fs.readFile(filePath): fails on a directory (EISDIR) and on a file that
\* cannot be opened (EACCES).
readFileFails(entry) == entry.kind # "file" \/ ~entry.readable

\* processFile up to the call of the processor (file type, read, parse, validate,
\* spec id): "skip" is its null return, "throw" its SpecScanError, "valid" the
\* document and id it goes on with.
beforeProcess(entry) ==
  LET filename == entry.name
      fileType == getFileType(filename)
  IN IF fileType = "invalid" THEN [kind |-> "skip"]
     ELSE IF readFileFails(entry)
     THEN [kind |-> "throw", error |-> [name |-> "SpecScanError", cause |-> "readFile"]]
     ELSE
       LET parsed == parseSpec(entry.content, fileType) IN
       IF ~parsed.ok
       THEN [kind |-> "throw", error |-> [name |-> "SpecScanError", cause |-> parsed.message]]
       ELSE IF ~isValidSpecObject(parsed.value)
       THEN [kind |-> "throw",
             error |-> [name |-> "SpecScanError",
                        cause |-> "Invalid OpenAPI specification format"]]
       ELSE [kind |-> "valid",
             specObject |-> parsed.value.v,
             specId |-> extractSpecId(parsed.value.v, filename)]

\* processFile: the processor is called on every document that passed validation;
\* its failure is wrapped like the others.
processFile(entry) ==
  LET before == beforeProcess(entry) IN
  IF before.kind # "valid" THEN before
  ELSE IF ~entry.content.processable
  THEN [kind |-> "throw", error |-> [name |-> "SpecScanError", cause |-> "process"]]
  ELSE [kind |-> "return",
        result |-> [filename |-> entry.name,
                    spec |-> process(before.specObject),
                    specId |-> before.specId]]

\* Faulty variant: a file that fails yields nothing.
yieldedForDropFailures(entry) ==
  LET outcome == processFile(entry) IN
  IF outcome.kind = "return" THEN <<outcome.result>> ELSE <<>>

\* Body of the for loop of scan for one directory entry: what is yielded for it.
yieldedFor(entry) ==
  LET outcome == processFile(entry) IN
  IF outcome.kind = "return" THEN <<outcome.result>>
  ELSE IF outcome.kind = "skip" THEN <<>>
  ELSE <<[filename |-> entry.name, specId |-> entry.name, spec |-> EmptyObject,
          error |-> outcome.error]>>

\* The calls of this.specProcessor.process made while one directory entry is handled.
processCallsFor(entry) ==
  IF beforeProcess(entry).kind = "valid" THEN <<entry.name>> ELSE <<>>

\* The folders of the file system: only /specs can be listed.
Folders == {"", "/specs", "/missing", "/secret"}
readdirFails(path) == path # "/specs"

\* Faulty variant: a directory that cannot be read is scanned as an empty one.
beforeLoopSwallow(path) ==
  IF path = "" THEN "Error" ELSE "none"

\* scan up to its loop: the error raised, "none" if the loop is entered.
beforeLoop(path) ==
  IF path = "" THEN "Error"
  ELSE IF readdirFails(path) THEN "SpecScanError"
  ELSE "none"

(***************************************************************************)
(* The directories the scanner is run on.                                  *)
(***************************************************************************)
BasicDoc ==
  [openapi |-> "3.0.0", info |-> JObj(Info),
   paths |-> ("/items" :> [get |-> [responses |->
                ("200" :> [description |-> "ok", content |-> MediaJson(SharedRef)])]]),
   components |-> [schemas |-> ("Shared" :> Composed)]]

PetsDoc ==
  [openapi |-> "3.0.0",
   info |-> JObj([title |-> "Pets"] @@ ("x-spec-id" :> <<"p", "e", "t", "s">>)),
   paths |-> EmptyObject]

SwaggerDoc ==
  [swagger |-> "2.0",
   info |-> JObj([title |-> "Petstore"] @@ ("x-spec-id" :> <<"p", "e", "t", "s", "t", "o", "r", "e">>)),
   paths |-> EmptyObject,
   definitions |-> ("Pet" :> Person)]

NoInfoDoc == [openapi |-> "3.0.0", paths |-> EmptyObject]

\* "info": "Pets" -- a string where the object is expected.
StringInfoDoc ==
  [openapi |-> "3.0.0", info |-> JStr(<<"P", "e", "t", "s">>), paths |-> EmptyObject]

\* A 3.0 document with info and components but without paths.
NoPathsDoc ==
  [openapi |-> "3.0.0", info |-> JObj(Info),
   components |-> [schemas |-> ("Shared" :> Composed)]]

\* info["x-spec-id"] is the empty string.
EmptyIdDoc ==
  [openapi |-> "3.0.0",
   info |-> JObj([title |-> "Anonymous"] @@ ("x-spec-id" :> <<>>)),
   paths |-> EmptyObject]

BasicJson == [syntax |-> "json", value |-> JObj(BasicDoc), convertible |-> TRUE,
              processable |-> TRUE]
PetstoreSwagger == [syntax |-> "json", value |-> JObj(SwaggerDoc), convertible |-> TRUE,
                    processable |-> TRUE]
BrokenSwagger == [syntax |-> "yaml", value |-> JObj(SwaggerDoc), convertible |-> FALSE,
                  processable |-> TRUE]
Garbage == [syntax |-> "none", value |-> JNull, convertible |-> TRUE, processable |-> TRUE]
NoInfoJson == [syntax |-> "json", value |-> JObj(NoInfoDoc), convertible |-> TRUE,
               processable |-> TRUE]
BadPointerYaml == [syntax |-> "yaml", value |-> JObj(PetsDoc), convertible |-> TRUE,
                   processable |-> FALSE]
StringInfoJson == [syntax |-> "json", value |-> JObj(StringInfoDoc), convertible |-> TRUE,
                   processable |-> TRUE]
NoPathsYaml == [syntax |-> "yaml", value |-> JObj(NoPathsDoc), convertible |-> TRUE,
                processable |-> TRUE]
EmptyIdJson == [syntax |-> "json", value |-> JObj(EmptyIdDoc), convertible |-> TRUE,
                processable |-> TRUE]

DirEntries ==
  { [name |-> <<"a", ".", "j", "s", "o", "n">>, kind |-> "file", readable |-> TRUE, content |-> BasicJson],
    [name |-> <<"b", ".", "J", "S", "O", "N">>, kind |-> "file", readable |-> TRUE, content |-> PetstoreSwagger],
    [name |-> <<"c", ".", "y", "a", "m", "l">>, kind |-> "file", readable |-> TRUE, content |-> Garbage],
    [name |-> <<"e", ".", "t", "x", "t">>, kind |-> "file", readable |-> TRUE, content |-> BasicJson],
    [name |-> <<"s", "u", "b", ".", "j", "s", "o", "n">>, kind |-> "directory", readable |-> TRUE, content |-> Garbage],
    [name |-> <<".", "j", "s", "o", "n">>, kind |-> "file", readable |-> TRUE, content |-> BasicJson],
    [name |-> <<"h", ".", "j", "s", "o", "n">>, kind |-> "file", readable |-> TRUE, content |-> NoInfoJson],
    [name |-> <<"i", ".", "y", "m", "l">>, kind |-> "file", readable |-> TRUE, content |-> BadPointerYaml],
    [name |-> <<"k", ".", "y", "m", "l">>, kind |-> "file", readable |-> TRUE, content |-> BrokenSwagger],
    [name |-> <<"g", ".", "y", "a", "m", "l">>, kind |-> "file", readable |-> FALSE, content |-> BasicJson],
    [name |-> <<"n", ".", "j", "s", "o", "n">>, kind |-> "file", readable |-> TRUE, content |-> StringInfoJson],
    [name |-> <<"m", ".", "y", "a", "m", "l">>, kind |-> "file", readable |-> TRUE, content |-> NoPathsYaml],
    [name |-> <<"x", ".", "j", "s", "o", "n">>, kind |-> "file", readable |-> TRUE, content |-> EmptyIdJson] }

\* Directory listings: entries with distinct names, in any order.
Listings ==
  {l \in SeqsUpTo(DirEntries, MaxFiles) :
     \A i, j \in 1..Len(l) : i # j => l[i] # l[j]}

(***************************************************************************)
(* DefaultSpecScanner.scan as a state machine: the consumer pulls results  *)
(* one at a time.                                                          *)
(***************************************************************************)
ProcessorIdle ==
  /\ pc = "idle"
  /\ round = 1
  /\ pos = "component"
  /\ node = EmptyObject
  /\ spec = EmptyObject
  /\ specBefore = EmptyObject
  /\ dereferencedSpec = EmptyObject
  /\ processedSpec = EmptyObject
  /\ prevResult = EmptyObject

ScanInit ==
  /\ folderPath \in Folders
  /\ listing \in (IF readdirFails(folderPath) THEN {<<>>} ELSE Listings)
  /\ idx = 0
  /\ results = <<>>
  /\ raised = "none"
  /\ spc = "idle"
  /\ processCalls = <<>>
  /\ ProcessorIdle
  /\ ServiceIdle
  /\ CacheIdle
  /\ WalkIdle

\* First pull: the argument check and fs.readdir.
ScanBegin ==
  /\ spc = "idle"
  /\ raised' = beforeLoop(folderPath)
  /\ spc' = IF raised' = "none" THEN "iterating" ELSE "raised"
  /\ idx' = 1
  /\ UNCHANGED <<folderPath, listing, results, processCalls, procVars, svcVars, cacheVars, walkVars>>

\* One iteration of the loop over the files.
ScanFile ==
  /\ spc = "iterating"
  /\ idx <= Len(listing)
  /\ results' = results \o yieldedFor(listing[idx])
  /\ processCalls' = processCalls \o processCallsFor(listing[idx])
  /\ idx' = idx + 1
  /\ UNCHANGED <<folderPath, listing, raised, spc, procVars, svcVars, cacheVars, walkVars>>

\* The loop is over: the generator returns.
ScanEnd ==
  /\ spc = "iterating"
  /\ idx > Len(listing)
  /\ spc' = "done"
  /\ UNCHANGED <<folderPath, listing, idx, results, raised, processCalls, procVars, svcVars, cacheVars, walkVars>>

ScanNext == ScanBegin \/ ScanFile \/ ScanEnd

ScanSpec == ScanInit /\ [][ScanNext]_vars

(***************************************************************************)
(* Claims about DefaultSpecScanner.                                        *)
(***************************************************************************)
RecognizedExts == {ExtJson, ExtYaml, ExtYml}

IsRecognizedFile(entry) ==
  entry.kind = "file" /\ toLowerCase(extname(entry.name)) \in RecognizedExts

\* The file can be read, parsed, converted, validated and processed.
Healthy(entry) ==
  /\ entry.kind = "file" /\ entry.readable
  /\ entry.content.syntax = "json"
       \/ (entry.content.syntax = "yaml" /\ getFileType(entry.name) = "yaml")
  /\ entry.content.value.t = "object"
  /\ Has(entry.content.value.v, "swagger") => entry.content.convertible
  /\ Has(entry.content.value.v, "info")
  /\ entry.content.value.v.info.t = "object"
  /\ entry.content.processable

EntryNamed(name) == CHOOSE e \in Range(listing) : e.name = name

ResultsOfFiles ==
  LET OfFile(r) == \E e \in Range(listing) : e.name = r.filename /\ IsRecognizedFile(e)
  IN SelectSeq(results, OfFile)

\* C8: for a readable directory, scan yields exactly one result per file with a
\* recognized extension, in listing order; a file that fails gets an error result
\* with an empty document, and the files after it still get theirs.
C8_OneResultPerFile ==
  /\ ~readdirFails(folderPath) /\ spc # "idle" => raised = "none"
  /\ spc \in {"iterating", "done"} =>
       LET files == SelectSeq(SubSeq(listing, 1, idx - 1), IsRecognizedFile)
           rs == ResultsOfFiles
       IN /\ Len(rs) = Len(files)
          /\ \A i \in 1..Len(files) :
               /\ rs[i].filename = files[i].name
               /\ Has(rs[i], "error") <=> ~Healthy(files[i])
               /\ Has(rs[i], "error") => rs[i].spec = EmptyObject
  /\ spc = "done" => idx = Len(listing) + 1

C8_Witness ==
  /\ spc = "done" /\ Len(listing) = 3 /\ Len(results) = 2
  /\ IsRecognizedFile(listing[1]) /\ results[1].filename = listing[1].name
  /\ Has(results[1], "error")
  /\ getFileType(listing[2].name) = "invalid"
  /\ listing[3].content = PetstoreSwagger /\ getFileType(listing[3].name) = "json"
  /\ results[2].filename = listing[3].name /\ ~Has(results[2], "error")
  /\ \A i \in 1..3 : listing[i].kind = "file"

\* C9: scan emits no result, success or error, for a directory entry that is not a
\* regular file, nor for a file whose extension is not .json, .yaml or .yml.
C9_NothingForNonFiles ==
  \A i \in 1..Len(results) : IsRecognizedFile(EntryNamed(results[i].filename))

\* C10 as stated: when the directory cannot be read, scan yields nothing and ends
\* with a fatal scan error, and consuming the sequence raises in no other situation.
C10_OnlyDirectoryReadRaises ==
  /\ readdirFails(folderPath) /\ spc # "idle" =>
       results = <<>> /\ spc = "raised" /\ raised = "SpecScanError"
  /\ raised # "none" => readdirFails(folderPath) /\ raised = "SpecScanError"

\* C10 amended: with an empty folderPath consuming raises a plain "folderPath is
\* required" error before any read; otherwise, when the directory cannot be read,
\* scan yields nothing and ends with a SpecScanError; consuming raises in no other
\* situation.
C10_ArgumentOrDirectoryRaises ==
  /\ spc # "idle" /\ folderPath = "" =>
       results = <<>> /\ spc = "raised" /\ raised = "Error"
  /\ spc # "idle" /\ folderPath # "" /\ readdirFails(folderPath) =>
       results = <<>> /\ spc = "raised" /\ raised = "SpecScanError"
  /\ raised # "none" => spc = "raised" /\ (folderPath = "" \/ readdirFails(folderPath))
  /\ spc = "raised" => raised # "none"

C10_Witness ==
  spc = "raised" /\ raised = "SpecScanError" /\ folderPath = "/missing" /\ results = <<>>

\* The file is read and parsed (and converted), so that validation is reached.
ReachesValidation(entry) ==
  /\ IsRecognizedFile(entry) /\ entry.readable
  /\ parseSpec(entry.content, getFileType(entry.name)).ok

\* The parsed document is not an object with a non-null object info field.
LacksInfoObject(entry) ==
  LET value == entry.content.value IN
  \/ value.t # "object"
  \/ ~Has(value.v, "info")
  \/ value.v.info.t # "object"

ResultsFor(entry) ==
  LET Mine(r) == r.filename = entry.name IN SelectSeq(results, Mine)

Handled == IF spc \in {"iterating", "done"} THEN SubSeq(listing, 1, idx - 1) ELSE <<>>

\* C11: a recognized file whose parsed (and, for Swagger 2.0, converted) document
\* is not an object with a non-null object info field yields exactly one result,
\* an error result, and specProcessor.process is never called for it.
C11_InvalidDocumentRejected ==
  \A i \in 1..Len(Handled) :
    LET entry == Handled[i] IN
    ReachesValidation(entry) /\ LacksInfoObject(entry) =>
      /\ Len(ResultsFor(entry)) = 1
      /\ Has(ResultsFor(entry)[1], "error")
      /\ entry.name \notin Range(processCalls)

C11_Witness ==
  /\ spc = "done" /\ Len(listing) = 3
  /\ listing[1].content = StringInfoJson /\ ReachesValidation(listing[1])
  /\ listing[2].content = BasicJson /\ Healthy(listing[2])
  /\ listing[3].content = NoInfoJson /\ ReachesValidation(listing[3])
  /\ processCalls = <<listing[2].name>>
  /\ Len(results) = 3 /\ Has(results[1], "error") /\ Has(results[3], "error")

\* An openapi 3.x document with a valid info object and no paths field.
ModernWithoutPaths(entry) ==
  LET value == entry.content.value IN
  /\ ~LacksInfoObject(entry)
  /\ Has(value.v, "openapi") /\ ~Has(value.v, "swagger")
  /\ ~Has(value.v, "paths")

\* C12: a modern-format document that has a valid info object but no paths field
\* is rejected as invalid: the scanner yields an error result for it.
C12_NoPathsRejected ==
  \A i \in 1..Len(Handled) :
    LET entry == Handled[i] IN
    ReachesValidation(entry) /\ ModernWithoutPaths(entry) =>
      /\ Len(ResultsFor(entry)) = 1
      /\ Has(ResultsFor(entry)[1], "error")

\* The info object of the document in a file that scans successfully.
InfoOf(entry) == entry.content.value.v.info.v

SuccessFor(entry) ==
  LET Mine(r) == r.filename = entry.name /\ ~Has(r, "error") IN SelectSeq(results, Mine)

\* C13 as stated: for every successfully scanned file the result's specId is
\* info["x-spec-id"] when that field is present, and otherwise the file name
\* including its extension.
C13_SpecIdFromFieldWhenPresent ==
  \A i \in 1..Len(Handled) :
    LET entry == Handled[i] IN
    \A k \in 1..Len(SuccessFor(entry)) :
      SuccessFor(entry)[k].specId =
        IF Has(InfoOf(entry), "x-spec-id") THEN InfoOf(entry)["x-spec-id"] ELSE entry.name

\* C13 amended: for every successfully scanned file the result's specId is
\* info["x-spec-id"] when that field is present and not empty, and otherwise
\* (absent or empty) the file name including its extension.
C13_SpecIdFromNonEmptyField ==
  \A i \in 1..Len(Handled) :
    LET entry == Handled[i] IN
    \A k \in 1..Len(SuccessFor(entry)) :
      SuccessFor(entry)[k].specId =
        IF Has(InfoOf(entry), "x-spec-id") /\ InfoOf(entry)["x-spec-id"] # <<>>
        THEN InfoOf(entry)["x-spec-id"]
        ELSE entry.name

C13_Witness ==
  /\ spc = "done" /\ Len(listing) = 3 /\ Len(results) = 3
  /\ \A i \in 1..3 : ~Has(results[i], "error") /\ results[i].filename = listing[i].name
  /\ listing[1].content = PetstoreSwagger
  /\ results[1].specId = <<"p", "e", "t", "s", "t", "o", "r", "e">>
  /\ listing[2].content = BasicJson
  /\ results[2].specId = <<"a", ".", "j", "s", "o", "n">>
  /\ listing[3].content = EmptyIdJson
  /\ results[3].specId = <<"x", ".", "j", "s", "o", "n">>

\* C14: when a specification has no x-spec-id, its specification ID is the file
\* name without its extension.
C14_DefaultIdWithoutExtension ==
  \A i \in 1..Len(Handled) :
    LET entry == Handled[i] IN
    \A k \in 1..Len(SuccessFor(entry)) :
      ~Has(InfoOf(entry), "x-spec-id") =>
        SuccessFor(entry)[k].specId = withoutExtension(entry.name)

\* The id processFile had computed when the processor failed: extractSpecId runs
\* after validation and before specProcessor.process.
BestEffortSpecId(entry) ==
  IF beforeProcess(entry).kind = "valid" THEN beforeProcess(entry).specId ELSE entry.name

\* C15: when processing a recognized file fails at any step, the yielded result
\* carries the file name, the best-effort specId (the document's x-spec-id if it
\* had been read before the failure, otherwise the file name), an empty document
\* and the error.
C15_BestEffortSpecId ==
  \A i \in 1..Len(Handled) :
    LET entry == Handled[i] IN
    IsRecognizedFile(entry) /\ ~Healthy(entry) =>
      /\ Len(ResultsFor(entry)) = 1
      /\ ResultsFor(entry)[1].filename = entry.name
      /\ ResultsFor(entry)[1].specId = BestEffortSpecId(entry)
      /\ ResultsFor(entry)[1].spec = EmptyObject
      /\ Has(ResultsFor(entry)[1], "error")

(***************************************************************************)
(* FileSystemSpecService (src/unnamed/part_002).  The in-memory state is   *)
(* this.catalog, this.specs and this.specCache; the storage is the file    *)
(* _catalog/catalog.json and the files _dereferenced/<specId>.json.  The   *)
(* order of the keys of a JSON object is not modelled, so the operation    *)
(* and schema summaries of a catalog entry are held as sets.               *)
(***************************************************************************)
MaxCalls == 2      \* initialize / refresh calls made on one storage

Undefined == [t |-> "undefined"]

\* obj[key] of a JavaScript object whose values are strings: undefined when absent.
Member(obj, key) == IF Has(obj, key) THEN JStr(obj[key]) ELSE Undefined

Put(map, key, value) == (key :> value) @@ map

NoError == [name |-> "none", code |-> "none"]
SpecServiceError(code) == [name |-> "SpecServiceError", code |-> code]

Mem == [catalog |-> catalog, specs |-> specs, specCache |-> specCache]

SetMem(m) ==
  /\ catalog' = m.catalog
  /\ specs' = m.specs
  /\ specCache' = m.specCache

\* Faulty variant: the document map survives the reset.
resetStateKeepSpecs(mem) ==
  [catalog |-> <<>>, specs |-> mem.specs, specCache |-> EmptyObject]

resetState(mem) ==
  [catalog |-> <<>>, specs |-> EmptyObject, specCache |-> EmptyObject]

\* Faulty variant: what was loaded before the failure is kept.
onLoadFailureKeep(mem) == mem

\* The catch block of loadExistingCatalog.
onLoadFailure(mem) == resetState(mem)

\* Faulty variant: the new entries are added to the ones already in memory.
assignCatalogAppend(mem, newCatalog) ==
  [mem EXCEPT !.catalog = mem.catalog \o newCatalog]

\* this.catalog = tempCatalog
assignCatalog(mem, newCatalog) == [mem EXCEPT !.catalog = newCatalog]

\* The two assignments at the end of saveSpec, and of the forEach of
\* loadExistingCatalog.
remember(mem, specId, doc) ==
  [mem EXCEPT !.specs = Put(mem.specs, specId, doc),
              !.specCache = Put(mem.specCache, specId, doc)]

\* The operation summaries scanAndSave collects: every member of every path item
\* except "parameters" and "$ref".
operationSummaries(doc) ==
  IF ~Has(doc, "paths") THEN {}
  ELSE UNION {
         {[path |-> path2, method |-> method,
           description |-> Member(doc.paths[path2][method], "description"),
           operationId |-> Member(doc.paths[path2][method], "operationId")] :
            method \in DOMAIN doc.paths[path2] \ {"parameters", "$ref"}} :
         path2 \in DOMAIN doc.paths}

schemaSummaries(doc) ==
  IF Has(doc, "components") /\ Has(doc.components, "schemas")
  THEN {[name |-> name, description |-> Member(doc.components.schemas[name], "description")] :
          name \in DOMAIN doc.components.schemas}
  ELSE {}

\* The catalog entry scanAndSave builds for one ScanResult.
catalogEntry(doc, specId) ==
  [uri |-> [specId |-> specId, type |-> "specification", identifier |-> specId],
   description |-> Member(doc.info.v, "description"),
   operations |-> operationSummaries(doc),
   schemas |-> schemaSummaries(doc)]

\* JSON.stringify followed by JSON.parse: a member whose value is undefined is
\* not written.
dropUndefined(obj, keys) ==
  [k \in {key \in DOMAIN obj : ~(key \in keys /\ obj[key] = Undefined)} |-> obj[k]]

roundTripEntry(entry) ==
  LET e1 == dropUndefined(entry, {"description"}) IN
  [e1 EXCEPT !.operations = {dropUndefined(o, {"description", "operationId"}) : o \in @},
             !.schemas = {dropUndefined(sc, {"description"}) : sc \in @}]

roundTripCatalog(list) == [i \in 1..Len(list) |-> roundTripEntry(list[i])]

\* The results of scan on a readable directory.
RECURSIVE scanResults(_)
scanResults(files) ==
  IF files = <<>> THEN <<>>
  ELSE yieldedFor(Head(files)) \o scanResults(Tail(files))

\* Faulty variant: the loop stops at the first result that carries an error.
collectPendingUntilError(scanResult) ==
  LET bad == {i \in 1..Len(scanResult) : Has(scanResult[i], "error")}
      stop == IF bad = {} THEN Len(scanResult) + 1
              ELSE CHOOSE i \in bad : \A j \in bad : i <= j
      good == SubSeq(scanResult, 1, stop - 1)
  IN [i \in 1..Len(good) |->
        [spec |-> good[i].spec, entry |-> catalogEntry(good[i].spec, good[i].specId)]]

\* The loop of scanAndSave over the results: a result with an error is skipped,
\* the others become pending operations {spec, entry}.
collectPending(scanResult) ==
  LET Good(r) == ~Has(r, "error")
      good == SelectSeq(scanResult, Good)
  IN [i \in 1..Len(good) |->
        [spec |-> good[i].spec, entry |-> catalogEntry(good[i].spec, good[i].specId)]]

CatalogIds(list) == {list[i].uri.specId : i \in 1..Len(list)}

(***************************************************************************)
(* The lookups of the service.                                             *)
(***************************************************************************)
SchemaUri(specId, schemaName) == <<"apis://">> \o specId \o <<"/schemas/", schemaName>>
OperationUri(specId, operationId) ==
  <<"apis://">> \o specId \o <<"/operations/">> \o operationId

\* What a template literal makes of an operationId that is undefined.
UndefinedText == <<"u", "n", "d", "e", "f", "i", "n", "e", "d">>

\* The rejection of an async lookup that reads a property of undefined.
TypeError == [t |-> "raised", name |-> "TypeError"]

findSchemaByName(specId, schemaName) ==
  IF ~Has(specs, specId) THEN JNull
  ELSE LET doc == specs[specId] IN
       IF ~(Has(doc, "components") /\ Has(doc.components, "schemas")
            /\ Has(doc.components.schemas, schemaName))
       THEN JNull
       ELSE [name |-> schemaName,
             description |-> Member(doc.components.schemas[schemaName], "description"),
             schema |-> doc.components.schemas[schemaName],
             uri |-> SchemaUri(specId, schemaName)]

findOperationById(specId, operationId) ==
  IF ~Has(specs, specId) THEN JNull
  ELSE LET doc == specs[specId]
           paths == IF Has(doc, "paths") THEN doc.paths ELSE EmptyObject
           hits == {pm \in UNION {{<<path2, method>> : method \in DOMAIN paths[path2]} :
                                    path2 \in DOMAIN paths} :
                      Member(paths[pm[1]][pm[2]], "operationId") = JStr(operationId)}
       IN IF hits = {} THEN JNull
          ELSE LET pm == CHOOSE h \in hits : TRUE IN
               [path |-> pm[1], method |-> pm[2], operation |-> paths[pm[1]][pm[2]],
                specId |-> specId, uri |-> OperationUri(specId, operationId)]

findOperationByPathAndMethod(specId, path2, method) ==
  IF ~Has(specs, specId) THEN JNull
  ELSE LET doc == specs[specId] IN
       IF ~Has(doc, "paths") THEN TypeError       \* spec.paths[path2] on undefined
       ELSE IF ~Has(doc.paths, path2) THEN JNull
       ELSE IF ~Has(doc.paths[path2], method) THEN JNull
       ELSE [path |-> path2, method |-> method, operation |-> doc.paths[path2][method],
             specId |-> specId,
             uri |-> OperationUri(specId,
                                  IF Has(doc.paths[path2][method], "operationId")
                                  THEN doc.paths[path2][method].operationId
                                  ELSE UndefinedText)]

(***************************************************************************)
(* searchOperations.  The result list is held as the set of its elements;  *)
(* a specId that is omitted, like one that is the empty string, is <<>>.   *)
(***************************************************************************)
\* String.prototype.includes
includes(text, query) ==
  \E i \in 0..(Len(text) - Len(query)) : SubSeq(text, i + 1, i + Len(query)) = query

\* Array.prototype.join
RECURSIVE join(_, _)
join(parts, separator) ==
  IF parts = <<>> THEN <<>>
  ELSE IF Len(parts) = 1 THEN parts[1]
  ELSE parts[1] \o separator \o join(Tail(parts), separator)

\* [operation[key]] when the member is there, [] when it is undefined.
textMember(operation, key) == IF Has(operation, key) THEN <<operation[key]>> ELSE <<>>

NonEmptyText(text) == text # <<>>

\* Faulty variant: the tags are left out of the searched text.
searchTextWithoutTags(operation) ==
  toLowerCase(join(SelectSeq(textMember(operation, "operationId")
                               \o textMember(operation, "summary")
                               \o textMember(operation, "description"),
                             NonEmptyText),
                   <<" ">>))

\* [operationId, summary, description, ...tags || []].filter(Boolean).join(" ")
\* .toLowerCase()
searchText(operation) ==
  toLowerCase(join(SelectSeq(textMember(operation, "operationId")
                               \o textMember(operation, "summary")
                               \o textMember(operation, "description")
                               \o (IF Has(operation, "tags") THEN operation.tags ELSE <<>>),
                             NonEmptyText),
                   <<" ">>))

\* Faulty variant: the specId argument is ignored.
targetSpecsAll(specId) == catalog

\* targetSpecs: the first catalog entry with the given specId, if there is one;
\* the whole catalog when no specId is given.
targetSpecs(specId) ==
  IF specId # <<>>
  THEN LET Named(entry) == entry.uri.specId = specId
           found == SelectSeq(catalog, Named)
       IN IF found = <<>> THEN <<>> ELSE <<found[1]>>
  ELSE catalog

\* The body of the loop over targetSpecs, for one catalog entry.
matchingOperations(specId, query) ==
  IF ~Has(specs, specId) THEN {}
  ELSE IF ~Has(specs[specId], "paths") THEN {}
  ELSE LET paths == specs[specId].paths IN
       UNION {
         {[path |-> path2, method |-> method, operation |-> paths[path2][method],
           specId |-> specId,
           uri |-> OperationUri(specId,
                                IF Has(paths[path2][method], "operationId")
                                THEN paths[path2][method].operationId
                                ELSE UndefinedText)] :
            method \in {m \in DOMAIN paths[path2] \ {"parameters", "$ref"} :
                          includes(searchText(paths[path2][m]), toLowerCase(query))}} :
         path2 \in DOMAIN paths}

searchOperations(query, specId) ==
  UNION {matchingOperations(entry.uri.specId, query) :
           entry \in Range(targetSpecs(specId))}

(***************************************************************************)
(* The source directories the service is run on, and its state machine.    *)
(* Every await of initialize and scanAndSave is a step; the saveSpec calls  *)
(* of one Promise.all batch settle in any order, and the calls of a batch   *)
(* that was rejected go on in the background.                               *)
(***************************************************************************)
PetsYaml == [syntax |-> "yaml", value |-> JObj(PetsDoc), convertible |-> TRUE,
             processable |-> TRUE]

\* A second document that declares the x-spec-id of PetsDoc; it has no paths.
PetsDraftDoc == Without(PetsDoc, {"paths"})
PetsDraftYaml == [syntax |-> "yaml", value |-> JObj(PetsDraftDoc), convertible |-> TRUE,
                  processable |-> TRUE]

\* BasicDoc with three operations on /items: operationId, summary, description
\* and tags are texts, held as character sequences; the put operation has no
\* operationId.  The path item has a summary of its own, a string, and the
\* document declares the x-spec-id "../x".
ItemsDoc ==
  [BasicDoc EXCEPT
     !.info = JObj(Info @@ ("x-spec-id" :> <<".", ".", "/", "x">>)),
     !.paths = ("/items" :>
     [summary |-> JStr(<<"I", "t", "e", "m", "s">>),
      get |-> [operationId |-> <<"g", "e", "t", "I", "t", "e", "m">>,
               summary |-> <<"R", "e", "a", "d">>,
               tags |-> << <<"S", "t", "o", "r", "e">> >>,
               responses |-> BasicDoc.paths["/items"].get.responses],
      post |-> [operationId |-> <<"a", "d", "d", "I", "t", "e", "m">>,
                description |-> <<"C", "r", "e", "a", "t", "e">>,
                responses |-> OkResponse],
      put |-> [summary |-> <<"S", "w", "a", "p">>, responses |-> OkResponse]])]
ItemsJson == [syntax |-> "json", value |-> JObj(ItemsDoc), convertible |-> TRUE,
              processable |-> TRUE]

ServiceFiles ==
  << [name |-> <<"a", ".", "j", "s", "o", "n">>, kind |-> "file", readable |-> TRUE, content |-> ItemsJson],
     [name |-> <<"c", ".", "y", "a", "m", "l">>, kind |-> "file", readable |-> TRUE, content |-> Garbage],
     [name |-> <<"p", ".", "y", "a", "m", "l">>, kind |-> "file", readable |-> TRUE, content |-> PetsYaml],
     [name |-> <<"q", ".", "y", "a", "m", "l">>, kind |-> "file", readable |-> TRUE, content |-> PetsDraftYaml] >>

\* The states of the source directory: any of the files, in listing order; q.yaml,
\* which declares the x-spec-id of p.yaml, is drawn only next to p.yaml and
\* without a.json.
DirectoryStates ==
  {LET Kept(e) == e \in S IN SelectSeq(ServiceFiles, Kept) :
     S \in {T \in SUBSET Range(ServiceFiles) :
              ServiceFiles[4] \in T => ServiceFiles[3] \in T /\ ServiceFiles[1] \notin T}}

ServiceInit ==
  /\ svc = "constructed"
  /\ calls = 0
  /\ sourceFiles \in DirectoryStates
  /\ catalog = <<>>
  /\ specs = EmptyObject
  /\ specCache = EmptyObject
  /\ diskCatalog = [state |-> "absent"]
  /\ diskSpecs = EmptyObject
  /\ scanned = <<>>
  /\ pendingOperations = {}
  /\ tempCatalog = <<>>
  /\ lateSaves = {}
  /\ lateLoads = {}
  /\ atCall = [catalog |-> <<>>, specs |-> EmptyObject]
  /\ atScan = [catalog |-> <<>>, specs |-> EmptyObject]
  /\ loadFailed = FALSE
  /\ svcError = NoError
  /\ ProcessorIdle
  /\ ScanIdle
  /\ CacheIdle
  /\ WalkIdle

\* initialize() is called, or refresh(), which calls it.
CallInitialize ==
  /\ svc \in {"constructed", "ready", "failed"}
  /\ calls < MaxCalls
  /\ calls' = calls + 1
  /\ svc' = "ensuring"
  /\ atCall' = [catalog |-> catalog, specs |-> specs]
  /\ loadFailed' = FALSE
  /\ svcError' = NoError
  /\ UNCHANGED <<sourceFiles, catalog, specs, specCache, diskCatalog, diskSpecs, scanned,
                 pendingOperations, tempCatalog, lateSaves, lateLoads, atScan,
                 procVars, scanVars, cacheVars, walkVars>>

\* await this.ensureDirectories() succeeds.
EnsureDirectories ==
  /\ svc = "ensuring"
  /\ svc' = "loading"
  /\ UNCHANGED <<calls, sourceFiles, catalog, specs, specCache, diskCatalog, diskSpecs,
                 scanned, pendingOperations, tempCatalog, lateSaves, lateLoads, atCall,
                 atScan, loadFailed, svcError, procVars, scanVars, cacheVars, walkVars>>

\* fs.mkdir fails: ensureDirectory throws INIT_ERROR, the catch block of initialize
\* resets the state and throws.
EnsureDirectoriesFails ==
  /\ svc = "ensuring"
  /\ SetMem(resetState(Mem))
  /\ svc' = "failed"
  /\ svcError' = SpecServiceError("INIT_ERROR")
  /\ UNCHANGED <<calls, sourceFiles, diskCatalog, diskSpecs, scanned, pendingOperations,
                 tempCatalog, lateSaves, lateLoads, atCall, atScan, loadFailed,
                 procVars, scanVars, cacheVars, walkVars>>

\* loadExistingCatalog: this.catalog = await this.loadSpecCatalog().  A missing
\* catalog file reads as an empty catalog; one that cannot be parsed throws.
LoadSpecCatalog ==
  /\ svc = "loading"
  /\ IF diskCatalog.state = "corrupt"
     THEN /\ SetMem(onLoadFailure(Mem))
          /\ loadFailed' = TRUE
          /\ svc' = "scanning"
     ELSE /\ SetMem(assignCatalog(Mem, IF diskCatalog.state = "absent" THEN <<>>
                                       ELSE diskCatalog.entries))
          /\ loadFailed' = FALSE
          /\ svc' = "loadingSpecs"
  /\ UNCHANGED <<calls, sourceFiles, diskCatalog, diskSpecs, scanned, pendingOperations,
                 tempCatalog, lateSaves, lateLoads, atCall, atScan, svcError,
                 procVars, scanVars, cacheVars, walkVars>>

\* What loadSpec(specId) resolves to: the cached document, else the stored one.
loadSpec(specId) ==
  IF Has(specCache, specId) THEN specCache[specId] ELSE diskSpecs[specId]

loadSpecFails(specId) == ~Has(specCache, specId) /\ ~Has(diskSpecs, specId)

RECURSIVE rememberAll(_, _)
rememberAll(mem, ids) ==
  IF ids = {} THEN mem
  ELSE LET id == CHOOSE x \in ids : TRUE IN
       rememberAll(remember(mem, id, loadSpec(id)), ids \ {id})

\* loadExistingCatalog: await Promise.all(catalog.map(loadSpec)) and the forEach.
\* When one loadSpec rejects, the reads of the others may still be going on.
LoadSpecs ==
  /\ svc = "loadingSpecs"
  /\ LET ids == CatalogIds(catalog)
         failing == {id \in ids : loadSpecFails(id)}
         reading == {id \in ids : ~Has(specCache, id) /\ Has(diskSpecs, id)}
     IN IF failing = {}
        THEN /\ SetMem(rememberAll(Mem, ids))
             /\ loadFailed' = FALSE
             /\ lateLoads' = lateLoads
        ELSE /\ SetMem(onLoadFailure(Mem))
             /\ loadFailed' = TRUE
             /\ \E late \in SUBSET reading : lateLoads' = lateLoads \cup late
  /\ svc' = "scanning"
  /\ UNCHANGED <<calls, sourceFiles, diskCatalog, diskSpecs, scanned, pendingOperations,
                 tempCatalog, lateSaves, atCall, atScan, svcError, procVars, scanVars, cacheVars, walkVars>>

\* A loadSpec of a rejected batch finishes its read: this.specCache.set(specId, spec).
LateLoad ==
  /\ \E id \in lateLoads :
       /\ lateLoads' = lateLoads \ {id}
       /\ specCache' = IF Has(diskSpecs, id) THEN Put(specCache, id, diskSpecs[id])
                       ELSE specCache
  /\ UNCHANGED <<svc, calls, sourceFiles, catalog, specs, diskCatalog, diskSpecs, scanned,
                 pendingOperations, tempCatalog, lateSaves, atCall, atScan, loadFailed,
                 svcError, procVars, scanVars, cacheVars, walkVars>>

\* scanAndSave up to its Promise.all: the scan is consumed, the entries are built,
\* ensureDirectories succeeds.
ScanFolder ==
  /\ svc = "scanning"
  /\ scanned' = collectPending(scanResults(sourceFiles))
  /\ pendingOperations' = 1..Len(scanned')
  /\ tempCatalog' = <<>>
  /\ atScan' = [catalog |-> catalog, specs |-> specs]
  /\ svc' = "saving"
  /\ UNCHANGED <<calls, sourceFiles, catalog, specs, specCache, diskCatalog, diskSpecs,
                 lateSaves, lateLoads, atCall, loadFailed, svcError, procVars, scanVars, cacheVars, walkVars>>

\* fs.readdir or ensureDirectories fails inside scanAndSave: it throws SCAN_ERROR.
ScanFolderFails ==
  /\ svc = "scanning"
  /\ scanned' = <<>>
  /\ pendingOperations' = {}
  /\ tempCatalog' = <<>>
  /\ atScan' = [catalog |-> catalog, specs |-> specs]
  /\ svc' = "scanFailed"
  /\ svcError' = SpecServiceError("SCAN_ERROR")
  /\ UNCHANGED <<calls, sourceFiles, catalog, specs, specCache, diskCatalog, diskSpecs,
                 lateSaves, lateLoads, atCall, loadFailed, procVars, scanVars, cacheVars, walkVars>>

\* One saveSpec of the batch writes its file and settles.
SaveSpec ==
  /\ svc = "saving"
  /\ \E i \in pendingOperations :
       LET op == scanned[i] IN
       /\ diskSpecs' = Put(diskSpecs, op.entry.uri.specId, op.spec)
       /\ SetMem(remember(Mem, op.entry.uri.specId, op.spec))
       /\ tempCatalog' = Append(tempCatalog, op.entry)
       /\ pendingOperations' = pendingOperations \ {i}
  /\ UNCHANGED <<svc, calls, sourceFiles, diskCatalog, scanned, lateSaves, lateLoads,
                 atCall, atScan, loadFailed, svcError, procVars, scanVars, cacheVars, walkVars>>

\* One saveSpec of the batch fails to write (PERSIST_ERROR): Promise.all rejects,
\* scanAndSave throws SCAN_ERROR; the other calls of the batch are still running.
SaveSpecFails ==
  /\ svc = "saving"
  /\ \E i \in pendingOperations :
       /\ lateSaves' = lateSaves \cup
            {[specId |-> scanned[j].entry.uri.specId, spec |-> scanned[j].spec] :
               j \in pendingOperations \ {i}}
       /\ pendingOperations' = {}
  /\ svc' = "scanFailed"
  /\ svcError' = SpecServiceError("SCAN_ERROR")
  /\ UNCHANGED <<calls, sourceFiles, catalog, specs, specCache, diskCatalog, diskSpecs,
                 scanned, tempCatalog, lateLoads, atCall, atScan, loadFailed,
                 procVars, scanVars, cacheVars, walkVars>>

\* A saveSpec of a rejected batch settles: its write succeeds or fails.
LateSave ==
  /\ \E op \in lateSaves :
       /\ lateSaves' = lateSaves \ {op}
       /\ \/ /\ diskSpecs' = Put(diskSpecs, op.specId, op.spec)
             /\ SetMem(remember(Mem, op.specId, op.spec))
          \/ UNCHANGED <<diskSpecs, catalog, specs, specCache>>
  /\ UNCHANGED <<svc, calls, sourceFiles, diskCatalog, scanned, pendingOperations,
                 tempCatalog, lateLoads, atCall, atScan, loadFailed, svcError,
                 procVars, scanVars, cacheVars, walkVars>>

\* await this.saveSpecCatalog(tempCatalog); this.catalog = tempCatalog.
SaveSpecCatalog ==
  /\ svc = "saving"
  /\ pendingOperations = {}
  /\ diskCatalog' = [state |-> "written", entries |-> roundTripCatalog(tempCatalog)]
  /\ SetMem(assignCatalog(Mem, tempCatalog))
  /\ svc' = "ready"
  /\ UNCHANGED <<calls, sourceFiles, diskSpecs, scanned, pendingOperations, tempCatalog,
                 lateSaves, lateLoads, atCall, atScan, loadFailed, svcError,
                 procVars, scanVars, cacheVars, walkVars>>

\* The write of catalog.json fails: scanAndSave throws SCAN_ERROR.
SaveSpecCatalogFails ==
  /\ svc = "saving"
  /\ pendingOperations = {}
  /\ svc' = "scanFailed"
  /\ svcError' = SpecServiceError("SCAN_ERROR")
  /\ UNCHANGED <<calls, sourceFiles, catalog, specs, specCache, diskCatalog, diskSpecs,
                 scanned, pendingOperations, tempCatalog, lateSaves, lateLoads, atCall,
                 atScan, loadFailed, procVars, scanVars, cacheVars, walkVars>>

\* The catch block of initialize: resetState, then throw INIT_ERROR.
InitializeCatch ==
  /\ svc = "scanFailed"
  /\ SetMem(resetState(Mem))
  /\ svc' = "failed"
  /\ svcError' = SpecServiceError("INIT_ERROR")
  /\ UNCHANGED <<calls, sourceFiles, diskCatalog, diskSpecs, scanned, pendingOperations,
                 tempCatalog, lateSaves, lateLoads, atCall, atScan, loadFailed,
                 procVars, scanVars, cacheVars, walkVars>>

\* Between two calls files are added to or removed from the source directory.
ChangeDirectory ==
  /\ svc \in {"ready", "failed"}
  /\ calls < MaxCalls
  /\ \E d \in DirectoryStates : d # sourceFiles /\ sourceFiles' = d
  /\ UNCHANGED <<svc, calls, catalog, specs, specCache, diskCatalog, diskSpecs, scanned,
                 pendingOperations, tempCatalog, lateSaves, lateLoads, atCall, atScan,
                 loadFailed, svcError, procVars, scanVars, cacheVars, walkVars>>

\* Between two calls the storage is damaged: catalog.json becomes unreadable, or
\* the file of one document is deleted.
DamageStorage ==
  /\ svc \in {"ready", "failed"}
  /\ calls < MaxCalls
  /\ \/ /\ diskCatalog.state = "written"
        /\ diskCatalog' = [state |-> "corrupt"]
        /\ UNCHANGED diskSpecs
     \/ /\ \E id \in DOMAIN diskSpecs : diskSpecs' = Without(diskSpecs, {id})
        /\ UNCHANGED diskCatalog
  /\ UNCHANGED <<svc, calls, sourceFiles, catalog, specs, specCache, scanned,
                 pendingOperations, tempCatalog, lateSaves, lateLoads, atCall, atScan,
                 loadFailed, svcError, procVars, scanVars, cacheVars, walkVars>>

\* The process ends and a new one constructs the service on the same storage.
Restart ==
  /\ svc \in {"ready", "failed"}
  /\ calls < MaxCalls
  /\ svc' = "constructed"
  /\ SetMem(resetState(Mem))
  /\ lateSaves' = {}
  /\ lateLoads' = {}
  /\ svcError' = NoError
  /\ UNCHANGED <<calls, sourceFiles, diskCatalog, diskSpecs, scanned, pendingOperations,
                 tempCatalog, atCall, atScan, loadFailed, procVars, scanVars, cacheVars, walkVars>>

ServiceNext ==
  \/ CallInitialize \/ EnsureDirectories \/ EnsureDirectoriesFails
  \/ LoadSpecCatalog \/ LoadSpecs \/ LateLoad
  \/ ScanFolder \/ ScanFolderFails
  \/ SaveSpec \/ SaveSpecFails \/ LateSave
  \/ SaveSpecCatalog \/ SaveSpecCatalogFails
  \/ InitializeCatch
  \/ ChangeDirectory \/ DamageStorage \/ Restart

ServiceSpec == ServiceInit /\ [][ServiceNext]_vars

(***************************************************************************)
(* Claims about FileSystemSpecService.                                     *)
(***************************************************************************)
ScannedIds == {scanned[i].entry.uri.specId : i \in 1..Len(scanned)}

MemoryEmpty == catalog = <<>> /\ specs = EmptyObject /\ specCache = EmptyObject

\* C16: scanAndSave applies a rescan atomically: while it is persisting the
\* documents and the catalog, this.catalog and this.specs are what they were when
\* it was called, and they still are when it throws because a persistence step
\* failed.
C16_RescanAtomic ==
  svc \in {"saving", "scanFailed"} =>
    catalog = atScan.catalog /\ specs = atScan.specs

\* C17: initialize fails only from directory creation or from the scan-and-save
\* pass, and at the step that surfaces the error the catalog, the document map and
\* the cache are empty and the error is a SpecServiceError with code INIT_ERROR.
C17_FailedInitializeLeavesNothing ==
  [][(svc # "failed" /\ svc' = "failed") =>
       /\ svc \in {"ensuring", "scanFailed"}
       /\ catalog' = <<>> /\ specs' = EmptyObject /\ specCache' = EmptyObject
       /\ svcError' = SpecServiceError("INIT_ERROR")]_vars

C17_Witness ==
  /\ svc = "failed" /\ calls = 1
  /\ svcError = SpecServiceError("INIT_ERROR")
  /\ MemoryEmpty
  /\ diskSpecs # EmptyObject /\ lateSaves = {}

C19_CatalogOnlyScanned ==
  svc = "ready" =>
    /\ Len(catalog) = Len(scanned)
    /\ Range(catalog) = {scanned[i].entry : i \in 1..Len(scanned)}
    /\ \A id \in CatalogIds(atCall.catalog) \ ScannedIds : id \notin CatalogIds(catalog)

C19_Witness ==
  /\ svc = "ready" /\ calls = 2 /\ catalog # <<>>
  /\ CatalogIds(atCall.catalog) \ CatalogIds(catalog) # {}

\* C20: after a successful refresh the document map holds exactly the documents
\* scanned in that refresh, and the lookups return null for every other specId.
C20_DocumentMapOnlyScanned ==
  svc = "ready" =>
    /\ DOMAIN specs = ScannedIds
    /\ \A i \in 1..Len(scanned) : specs[scanned[i].entry.uri.specId] = scanned[i].spec
    /\ \A id \in CatalogIds(atCall.catalog) \ ScannedIds :
         /\ findSchemaByName(id, "Shared") = JNull
         /\ findOperationById(id, <<"g", "e", "t", "I", "t", "e", "m">>) = JNull
         /\ findOperationByPathAndMethod(id, "/items", "get") = JNull

\* C21: at the step that ends a scan-and-save pass, a file whose scan result
\* carries an error has no catalog entry, no persisted document and was never a
\* pending save, and every other result of the pass has its catalog entry and a
\* persisted document under its specId.
C21_ErrorResultsSkipped ==
  [][(svc = "saving" /\ svc' = "ready") =>
       \A r \in Range(scanResults(sourceFiles)) :
         IF Has(r, "error")
         THEN /\ r.specId \notin CatalogIds(catalog')
              /\ r.specId \notin DOMAIN diskSpecs'
              /\ r.specId \notin ScannedIds
         ELSE /\ catalogEntry(r.spec, r.specId) \in Range(catalog')
              /\ Has(diskSpecs', r.specId)]_vars

C21_Witness ==
  /\ svc = "ready" /\ svcError = NoError
  /\ Len(sourceFiles) = 3 /\ sourceFiles[2] = ServiceFiles[2]
  /\ Len(catalog) = 2
  /\ \A i \in 1..2 : Has(diskSpecs, catalog[i].uri.specId)

\* C22: no two entries of the catalog have the same specId.
C22_CatalogIdsUnique ==
  \A i, j \in 1..Len(catalog) :
    catalog[i].uri.specId = catalog[j].uri.specId => i = j

\* The queries and specIds searchOperations is called with.
SearchQueries ==
  { <<"i", "t", "e", "m">>, <<"R", "E", "A", "D">>, <<"s", "t", "o", "r">>,
    <<"c", "r", "e", "a", "t">>, <<"S", "w", "a", "p">>, <<"m", " ", "r">>,
    <<"z", "z", "z">>, <<>> }

\* C33: in every state, the positions between two awaits of initialize, refresh
\* and scanAndSave included, each specId of the in-memory catalog has a document in
\* the in-memory document map.
C33_CatalogIdsHaveDocuments ==
  \A id \in CatalogIds(catalog) : Has(specs, id)

\* C34: once scanAndSave or initialize has thrown, and until the next call, no
\* step changes the in-memory document map or the cache.
C34_NothingAfterFailure ==
  [][(svc \in {"scanFailed", "failed"} /\ svc' = svc) =>
       specs' = specs /\ specCache' = specCache]_vars

\* C35: after a scan-and-save pass the entries of the catalog are in the order
\* in which the scanner yielded their files.
C35_CatalogInScanOrder ==
  svc = "ready" => catalog = [i \in 1..Len(scanned) |-> scanned[i].entry]

\* The segments of a path: the characters between the separators.
RECURSIVE split(_)
split(chars) ==
  LET seps == {i \in 1..Len(chars) : chars[i] = "/"} IN
  IF seps = {} THEN <<chars>>
  ELSE LET s == CHOOSE i \in seps : \A j \in seps : i <= j IN
       <<SubSeq(chars, 1, s - 1)>> \o split(SubSeq(chars, s + 1, Len(chars)))

\* path.normalize of a relative path: empty and "." segments are dropped, and a
\* ".." segment removes the segment before it, or stays when there is none.
RECURSIVE normalize(_, _)
normalize(done, segments) ==
  IF segments = <<>> THEN done
  ELSE LET head == Head(segments) IN
       normalize(IF head = <<>> \/ head = <<".">> THEN done
                 ELSE IF head = <<".", ".">> /\ done # <<>> /\ done[Len(done)] # <<".", ".">>
                      THEN SubSeq(done, 1, Len(done) - 1)
                 ELSE Append(done, head),
                 Tail(segments))

\* path.join(directory, name): the two joined with a separator and normalized.
pathJoin(directory, name) == normalize(<<>>, directory \o split(name))

\* this.dereferencedPath = path.join(basePath, dereferencedDir), for the base path
\* "apis" and the default directory name "_dereferenced".
dereferencedPath ==
  pathJoin(<< <<"a", "p", "i", "s">> >>,
           <<"_", "d", "e", "r", "e", "f", "e", "r", "e", "n", "c", "e", "d">>)

\* const specPath = path.join(this.dereferencedPath, `${specId}.json`)
specPath(specId) == pathJoin(dereferencedPath, specId \o ExtJson)

\* A path that lies inside a directory: under it, and not the directory itself.
inside(filePath, directory) ==
  /\ Len(filePath) > Len(directory)
  /\ SubSeq(filePath, 1, Len(directory)) = directory

\* The specIds saveSpec has written a file for or is writing one for.
SavedIds ==
  DOMAIN diskSpecs \cup {scanned[i].entry.uri.specId : i \in pendingOperations}
    \cup {op.specId : op \in lateSaves}

\* C40: the file saveSpec writes, for every specId it is called with, lies inside
\* the directory of the dereferenced specifications.
C40_FilesInsideDirectory ==
  \A specId \in SavedIds : inside(specPath(specId), dereferencedPath)

\* C38: the method of every operation summary of a catalog entry, in the catalog
\* in memory and in the one being built, is an HTTP method.
C38_SummariesAreOperations ==
  \A e \in Range(catalog) \cup Range(tempCatalog) :
    \A o \in e.operations : o.method \in operations

\* A specId no file of the source directory yields.
UnknownId == <<"n", "o">>

\* C27: for every document held for a catalogued specId, and for an unknown
\* specId, the three lookups return null, and do not raise, when the named schema,
\* operationId, path or method does not exist.
C27_LookupsReturnNull ==
  \A id \in DOMAIN specs \cup {UnknownId} :
    /\ findSchemaByName(id, "Missing") = JNull
    /\ findOperationById(id, <<"n", "o", "O", "p">>) = JNull
    /\ findOperationByPathAndMethod(id, "/missing", "get") = JNull
    /\ findOperationByPathAndMethod(id, "/items", "delete") = JNull

MaxCacheSize == 2  \* largest maxSize a cache is constructed with
MaxTime == 3       \* the clock runs from 0 to MaxTime

CacheKeys == {<<"t">>, <<"u">>, <<"w">>}
Lifetimes == 1..2

hasKey(map, key) == \E i \in 1..Len(map) : map[i].key = key

entryOf(map, key) == map[CHOOSE i \in 1..Len(map) : map[i].key = key]

\* Map.delete(key)
delete(map, key) ==
  LET Other(e) == e.key # key IN SelectSeq(map, Other)

\* Map.set(key, entry)
mapSet(map, key, entry) ==
  IF hasKey(map, key)
  THEN [i \in 1..Len(map) |-> IF map[i].key = key THEN entry ELSE map[i]]
  ELSE Append(map, entry)

\* this.cache.keys().next().value, deleted when the cache is at capacity; deleting
\* the undefined first key of an empty Map does nothing.
evictOldest(map, capacity) ==
  IF Len(map) >= capacity /\ map # <<>> THEN Tail(map) ELSE map

\* Faulty variant: nothing is removed at capacity.
setWithoutEviction(map, capacity, key, value, time) ==
  mapSet(map, key, [key |-> key, value |-> value, timestamp |-> time])

\* SimpleCache.set
set(map, capacity, key, value, time) ==
  mapSet(evictOldest(map, capacity), key,
         [key |-> key, value |-> value, timestamp |-> time])

\* Faulty variant: an entry never expires.
neverExpired(entry, lifetime, time) == FALSE

isExpired(entry, lifetime, time) == time - entry.timestamp > lifetime

\* Faulty variant: a lookup moves the entry to the end of the Map (access order).
getAndTouch(map, lifetime, key, time) ==
  IF ~hasKey(map, key) THEN [cache |-> map, value |-> Undefined]
  ELSE IF isExpired(entryOf(map, key), lifetime, time)
  THEN [cache |-> delete(map, key), value |-> Undefined]
  ELSE [cache |-> Append(delete(map, key), entryOf(map, key)),
        value |-> entryOf(map, key).value]

\* Faulty variant: an expired entry is reported absent but stays in the Map.
getKeepExpired(map, lifetime, key, time) ==
  IF ~hasKey(map, key) THEN [cache |-> map, value |-> Undefined]
  ELSE IF isExpired(entryOf(map, key), lifetime, time)
  THEN [cache |-> map, value |-> Undefined]
  ELSE [cache |-> map, value |-> entryOf(map, key).value]

\* SimpleCache.get: the Map after the call and the value returned.
get(map, lifetime, key, time) ==
  IF ~hasKey(map, key) THEN [cache |-> map, value |-> Undefined]
  ELSE IF isExpired(entryOf(map, key), lifetime, time)
  THEN [cache |-> delete(map, key), value |-> Undefined]
  ELSE [cache |-> map, value |-> entryOf(map, key).value]

\* Faulty variant: the sweep empties the Map.
cleanupEverything(map, lifetime, time) == <<>>

\* SimpleCache.cleanup
cleanup(map, lifetime, time) ==
  LET Fresh(e) == ~isExpired(e, lifetime, time) IN SelectSeq(map, Fresh)

\* SimpleCache.clear
clear(map) == <<>>

\* The documents handed to the cache and to saveSpec: the one of the tests, and
\* one whose info.description is undefined.
TestSpec ==
  [openapi |-> "3.0.0",
   info |-> JObj([title |-> "Test API", version |-> "1.0.0"]),
   paths |-> EmptyObject,
   components |-> [schemas |-> EmptyObject]]

DraftSpec ==
  [openapi |-> "3.0.0",
   info |-> JObj([title |-> "Draft API", description |-> Undefined]),
   paths |-> EmptyObject]

StoreDocs == {TestSpec, DraftSpec}

CacheInit ==
  /\ cache = <<>>
  /\ maxSize \in 1..MaxCacheSize
  /\ ttl \in Lifetimes
  /\ now = 0
  /\ call = [op |-> "none"]
  /\ ProcessorIdle
  /\ ScanIdle
  /\ ServiceIdle
  /\ WalkIdle

\* cache.set(key, value)
Set ==
  /\ \E key \in CacheKeys, value \in StoreDocs :
       /\ cache' = set(cache, maxSize, key, value, now)
       /\ call' = [op |-> "set", key |-> key,
                   evicted |-> IF Len(cache) >= maxSize /\ cache # <<>>
                               THEN <<Head(cache).key>> ELSE <<>>]
  /\ UNCHANGED <<maxSize, ttl, now, procVars, walkVars, scanVars, svcVars>>

\* cache.get(key)
Get ==
  /\ \E key \in CacheKeys :
       /\ cache' = get(cache, ttl, key, now).cache
       /\ call' = [op |-> "get", key |-> key, result |-> get(cache, ttl, key, now).value,
                   expired |-> hasKey(cache, key) /\ now - entryOf(cache, key).timestamp > ttl]
  /\ UNCHANGED <<maxSize, ttl, now, procVars, walkVars, scanVars, svcVars>>

\* The cleanup timer fires.
Cleanup ==
  /\ cache' = cleanup(cache, ttl, now)
  /\ UNCHANGED <<maxSize, ttl, now, call, procVars, walkVars, scanVars, svcVars>>

\* The cleanup timer fires on a cache whose calls are recorded.
Sweep ==
  /\ cache' = cleanup(cache, ttl, now)
  /\ call' = [op |-> "cleanup", removed |-> Len(cache) - Len(cleanup(cache, ttl, now))]
  /\ UNCHANGED <<maxSize, ttl, now, procVars, walkVars, scanVars, svcVars>>

\* cache.clear()
Clear ==
  /\ cache' = clear(cache)
  /\ UNCHANGED <<maxSize, ttl, now, call, procVars, walkVars, scanVars, svcVars>>

\* Time passes.
Tick ==
  /\ now < MaxTime
  /\ now' = now + 1
  /\ UNCHANGED <<cache, maxSize, ttl, call, procVars, walkVars, scanVars, svcVars>>

CacheNext == Set \/ Get \/ Sweep \/ Clear \/ Tick

CacheSpec == CacheInit /\ [][CacheNext]_vars

\* setInterval calls cleanup again and again for as long as the timer is not
\* cleared: a sweep that has something to do is not put off for ever.
CacheLiveSpec == CacheSpec /\ WF_vars(Sweep)

C30_OldestEvictedLookupsNeutral ==
  [][/\ \A key \in CacheKeys :
          (~hasKey(cache, key) /\ hasKey(cache', key) /\ Len(cache) = maxSize) =>
            /\ Len(cache') = maxSize
            /\ SubSeq(cache', 1, Len(cache') - 1) = Tail(cache)
            /\ cache'[Len(cache')].key = key
     /\ (call' # call /\ call'.op = "get" /\ cache # <<>>) =>
          cache' # <<>> /\ Head(cache').key = Head(cache).key]_vars

\* C30 amended: a get never reorders the entries; it leaves the Map as it is, or
\* removes the entry looked up when that entry has expired.
C30_OldestEvictedLookupsKeepOrder ==
  [][/\ \A key \in CacheKeys :
          (~hasKey(cache, key) /\ hasKey(cache', key) /\ Len(cache) = maxSize) =>
            /\ Len(cache') = maxSize
            /\ SubSeq(cache', 1, Len(cache') - 1) = Tail(cache)
            /\ cache'[Len(cache')].key = key
     /\ (call' # call /\ call'.op = "get") =>
          \/ cache' = cache
          \/ /\ hasKey(cache, call'.key)
             /\ isExpired(entryOf(cache, call'.key), ttl, now)
             /\ cache' = delete(cache, call'.key)]_vars

C30_Witness ==
  /\ maxSize = 2 /\ Len(cache) = 2
  /\ call.op = "get" /\ call.result # Undefined
  /\ cache[1].key = call.key
  /\ cache[1].timestamp < cache[2].timestamp

\* C31: a get of a key whose entry is at most ttl old returns the stored value
\* and leaves the Map alone; a get of a key whose entry is older returns undefined
\* and removes the entry; a get of a key that has no entry returns undefined, so
\* the key stays absent until it is set again.
C31_ExpiredAbsentOnLookup ==
  [][(call' # call /\ call'.op = "get") =>
       IF hasKey(cache, call'.key)
       THEN IF now - entryOf(cache, call'.key).timestamp <= ttl
            THEN call'.result = entryOf(cache, call'.key).value /\ cache' = cache
            ELSE /\ call'.result = Undefined
                 /\ ~hasKey(cache', call'.key)
                 /\ cache' = delete(cache, call'.key)
       ELSE call'.result = Undefined /\ cache' = cache]_vars

C31_Witness ==
  /\ call.op = "get" /\ call.expired /\ call.result = Undefined
  /\ ~hasKey(cache, call.key) /\ cache # <<>>

\* C32: an entry that is older than ttl leaves the Map sooner or later without
\* any lookup being needed (an entry, once older than ttl, stays so: again and
\* again the Map holds no such entry), and a sweep removes only entries older
\* than ttl.
C32_SweepRemovesExpired ==
  /\ []<>(\A e \in Range(cache) : now - e.timestamp <= ttl)
  /\ [][Sweep => \A e \in Range(cache) :
                    e \notin Range(cache') => now - e.timestamp > ttl]_vars

C32_Witness ==
  /\ call.op = "cleanup" /\ call.removed >= 1
  /\ cache # <<>>

\* C39: a set of a key that is present replaces the key's value and timestamp
\* and keeps every other entry, whether or not the cache is at capacity.
C39_UpdateKeepsOthers ==
  [][\A key \in CacheKeys :
       (call' # call /\ call'.op = "set" /\ call'.key = key /\ hasKey(cache, key)) =>
         /\ hasKey(cache', key)
         /\ entryOf(cache', key).timestamp = now
         /\ \A e \in Range(cache) : e.key # key => e \in Range(cache')]_vars

(***************************************************************************)
(* loadSpec and saveSpec of FileSystemSpecService on its SimpleCache.  The  *)
(* caller awaits each call before it makes the next one; a call that waits *)
(* for the file system is pending, and the clock and the cleanup timer go  *)
(* on meanwhile.  Reading a file that exists succeeds.                     *)
(***************************************************************************)
StoreIds == {<<"t">>, <<"u">>}

\* JSON.stringify(spec, null, 2): the text of the file.  A member whose value is
\* undefined is not written.
JSONstringify(doc) ==
  [text |-> [doc EXCEPT !.info = JObj(dropUndefined(doc.info.v, {"description"}))]]

\* Faulty variant: the components of the document are lost on the way back.
JSONparseWithoutComponents(file) == Without(file.text, {"components"})

JSONparse(file) == file.text

\* expect(a).toEqual(b): equal content, members that are undefined ignored.
toEqual(a, b) == JSONstringify(a) = JSONstringify(b)

StoreMem == [specs |-> specs, cache |-> cache]

SetStoreMem(m) ==
  /\ specs' = m.specs
  /\ cache' = m.cache

\* this.specs[specId] = spec; this.specCache.set(specId, spec)
rememberSaved(mem, capacity, specId, doc, time) ==
  [specs |-> Put(mem.specs, specId, doc),
   cache |-> set(mem.cache, capacity, specId, doc, time)]

\* Faulty variant: the document is remembered although it was not written.
onWriteFailureRemember(mem, capacity, specId, doc, time) ==
  rememberSaved(mem, capacity, specId, doc, time)

\* The catch block of saveSpec: nothing is assigned.
onWriteFailure(mem, capacity, specId, doc, time) == mem

StoreInit ==
  /\ cache = <<>>
  /\ maxSize \in 1..MaxCacheSize
  /\ ttl \in Lifetimes
  /\ now = 0
  /\ call = [op |-> "none", state |-> "returned"]
  /\ ProcessorIdle
  /\ ScanIdle
  /\ ServiceIdle
  /\ WalkIdle

Returned == call.state # "pending"

\* saveSpec(doc, specId) is called: it awaits ensureDirectory and fs.writeFile.
SaveSpecCall ==
  /\ Returned
  /\ \E specId \in StoreIds, doc \in StoreDocs :
       call' = [op |-> "saveSpec", specId |-> specId, doc |-> doc, state |-> "pending"]
  /\ UNCHANGED <<cache, maxSize, ttl, now, procVars, walkVars, scanVars, svcVars>>

\* The file is written; the document map and the cache are updated.
SaveSpecWrites ==
  /\ call.op = "saveSpec" /\ call.state = "pending"
  /\ diskSpecs' = Put(diskSpecs, call.specId, JSONstringify(call.doc))
  /\ SetStoreMem(rememberSaved(StoreMem, maxSize, call.specId, call.doc, now))
  /\ call' = [call EXCEPT !.state = "returned"]
  /\ UNCHANGED <<maxSize, ttl, now, procVars, walkVars, scanVars, svc, calls, sourceFiles, catalog,
                 specCache, diskCatalog, scanned, pendingOperations, tempCatalog,
                 lateSaves, lateLoads, atCall, atScan, loadFailed, svcError>>

\* ensureDirectory or fs.writeFile fails: saveSpec throws PERSIST_ERROR.
SaveSpecThrows ==
  /\ call.op = "saveSpec" /\ call.state = "pending"
  /\ SetStoreMem(onWriteFailure(StoreMem, maxSize, call.specId, call.doc, now))
  /\ call' = [op |-> "saveSpec", specId |-> call.specId, doc |-> call.doc,
              state |-> "threw", error |-> SpecServiceError("PERSIST_ERROR")]
  /\ UNCHANGED <<maxSize, ttl, now, procVars, walkVars, scanVars, svc, calls, sourceFiles, catalog,
                 specCache, diskCatalog, diskSpecs, scanned, pendingOperations,
                 tempCatalog, lateSaves, lateLoads, atCall, atScan, loadFailed, svcError>>

\* loadSpec(specId) is called: a cached document is returned at once, otherwise
\* the call awaits fs.readFile.
LoadSpecCall ==
  /\ Returned
  /\ \E specId \in StoreIds :
       LET cached == get(cache, ttl, specId, now) IN
       /\ cache' = cached.cache
       /\ call' = IF cached.value # Undefined
                  THEN [op |-> "loadSpec", specId |-> specId, state |-> "returned",
                        result |-> cached.value, read |-> FALSE]
                  ELSE [op |-> "loadSpec", specId |-> specId, state |-> "pending"]
  /\ UNCHANGED <<maxSize, ttl, now, procVars, walkVars, scanVars, svcVars>>

\* The file is read and parsed; the document is cached and returned.
LoadSpecReads ==
  /\ call.op = "loadSpec" /\ call.state = "pending"
  /\ Has(diskSpecs, call.specId)
  /\ cache' = set(cache, maxSize, call.specId, JSONparse(diskSpecs[call.specId]), now)
  /\ call' = [op |-> "loadSpec", specId |-> call.specId, state |-> "returned",
              result |-> JSONparse(diskSpecs[call.specId]), read |-> TRUE]
  /\ UNCHANGED <<maxSize, ttl, now, procVars, walkVars, scanVars, svcVars>>

\* There is no file (ENOENT): loadSpec throws LOAD_ERROR, "Specification not found".
LoadSpecThrows ==
  /\ call.op = "loadSpec" /\ call.state = "pending"
  /\ ~Has(diskSpecs, call.specId)
  /\ call' = [op |-> "loadSpec", specId |-> call.specId, state |-> "threw",
              error |-> SpecServiceError("LOAD_ERROR"), notFound |-> TRUE]
  /\ UNCHANGED <<cache, maxSize, ttl, now, procVars, walkVars, scanVars, svcVars>>

StoreNext ==
  \/ SaveSpecCall \/ SaveSpecWrites \/ SaveSpecThrows
  \/ LoadSpecCall \/ LoadSpecReads \/ LoadSpecThrows
  \/ Cleanup \/ Tick

StoreSpec == StoreInit /\ [][StoreNext]_vars

(***************************************************************************)
(* Claims about loadSpec and saveSpec.                                     *)
(***************************************************************************)
\* C23: a loadSpec that throws throws LOAD_ERROR "not found" and there is neither
\* a file nor a cache entry for the id; a loadSpec returns only for an id that has
\* a file; and for an id saveSpec succeeded for, loadSpec does not throw and what
\* it returns has the content of the document saved last.
C23_LoadAfterSave ==
  call.op = "loadSpec" =>
    /\ call.state = "threw" =>
         /\ call.error = SpecServiceError("LOAD_ERROR") /\ call.notFound
         /\ ~Has(diskSpecs, call.specId) /\ ~hasKey(cache, call.specId)
    /\ call.state = "returned" => Has(diskSpecs, call.specId)
    /\ Has(specs, call.specId) =>
         /\ call.state # "threw"
         /\ call.state = "returned" => toEqual(call.result, specs[call.specId])

C23_Witness ==
  /\ call.op = "loadSpec" /\ call.state = "returned" /\ call.read
  /\ Has(specs, call.specId)
  /\ call.result # specs[call.specId]
  /\ toEqual(call.result, specs[call.specId])

\* C24: a loadSpec called while the cache holds an entry for the id that has not
\* expired returns that entry's document without reading storage and leaves the
\* cache as it is; called when the entry has expired (or there is none) it does
\* not return from the cache, and when its read ends it returns the parsed file
\* and the cache holds that document with a fresh timestamp.
C24_CacheFirst ==
  [][/\ (call.state # "pending" /\ call' # call /\ call'.op = "loadSpec") =>
          IF /\ hasKey(cache, call'.specId)
             /\ now - entryOf(cache, call'.specId).timestamp <= ttl
          THEN /\ call'.state = "returned"
               /\ call'.result = entryOf(cache, call'.specId).value
               /\ ~call'.read
               /\ cache' = cache
          ELSE /\ call'.state = "pending"
               /\ ~hasKey(cache', call'.specId)
     /\ (call.op = "loadSpec" /\ call.state = "pending" /\ call'.state = "returned") =>
          /\ call'.read
          /\ call'.result = JSONparse(diskSpecs[call.specId])
          /\ hasKey(cache', call.specId)
          /\ entryOf(cache', call.specId) =
               [key |-> call.specId, value |-> call'.result, timestamp |-> now]]_vars

C24_Witness ==
  /\ call.op = "loadSpec" /\ call.state = "returned" /\ call.read
  /\ maxSize = 2 /\ DOMAIN specs = {call.specId}
  /\ now > ttl
  /\ hasKey(cache, call.specId) /\ entryOf(cache, call.specId).timestamp = now

\* C25: the document map changes, and the cache gets an entry, only at the step
\* at which the file of the pending saveSpec is written, and then for that id and
\* document; a saveSpec that fails throws PERSIST_ERROR and leaves the document map
\* and the cache as they were.
C25_SaveAfterWrite ==
  [][/\ (call.op = "saveSpec" /\ call'.op = "saveSpec"
         /\ (specs' # specs \/ \E k \in CacheKeys : ~hasKey(cache, k) /\ hasKey(cache', k))) =>
          /\ call.state = "pending" /\ call'.state = "returned"
          /\ Has(diskSpecs', call.specId)
          /\ diskSpecs'[call.specId] = JSONstringify(call.doc)
          /\ specs' = Put(specs, call.specId, call.doc)
          /\ hasKey(cache', call.specId)
          /\ entryOf(cache', call.specId).value = call.doc
     /\ (call.op = "saveSpec" /\ call.state = "pending" /\ call'.state = "threw") =>
          /\ call'.error = SpecServiceError("PERSIST_ERROR")
          /\ specs' = specs
          /\ cache' = cache]_vars

C25_Witness ==
  /\ call.op = "saveSpec" /\ call.state = "threw"
  /\ call.error = SpecServiceError("PERSIST_ERROR")
  /\ specs # EmptyObject
  /\ ~Has(specs, call.specId) /\ ~hasKey(cache, call.specId)


(***************************************************************************)
(* The flatten pass on the object graph of a dereferenced document.        *)
(* $RefParser.dereference replaces a $ref by the object it points to, so   *)
(* two positions can hold the same object and a schema that refers to      *)
(* itself becomes an object that is reachable from itself; a $ref that is  *)
(* not resolved stays in place.  The component schemas are the objects     *)
(* 1..MaxNodes; heap[n] is the set of objects the properties of schema n   *)
(* hold, RefNode standing for an object that still carries $ref.  The      *)
(* schemas here have neither allOf nor items, so processSchema hands back  *)
(* the object it was given and the graph does not change during the pass.  *)
(* Every call of processSchema is a frame on the stack: the schema and the *)
(* properties not yet visited.                                             *)
(***************************************************************************)
MaxNodes == 2      \* component schemas of a document

\* The call depth at which the engine raises RangeError; the deepest chain of
\* calls on a graph without cycle is MaxNodes + 1 (every schema, then a $ref).
StackLimit == MaxNodes + 2

RefNode == 0

SchemaGraphs == [1..MaxNodes -> SUBSET (0..MaxNodes)]

\* isSchemaObject on an object of the graph: !("$ref" in schema)
carriesRef(n) == n = RefNode

\* The frame processSchema starts with: Object.entries(schema.properties), none
\* for an object that is not a schema object.
Frame(n) == [schema |-> n, todo |-> IF carriesRef(n) THEN {} ELSE heap[n]]

Top == stack[Len(stack)]

NextProperty == CHOOSE c \in Top.todo : \A d \in Top.todo : c <= d

\* process(spec) after dereference has resolved with the graph heap.
FlattenInit ==
  /\ heap \in SchemaGraphs
  /\ stack = <<>>
  /\ component = 0
  /\ flat = "running"
  /\ ProcessorIdle
  /\ ScanIdle
  /\ ServiceIdle
  /\ CacheIdle

\* mergeAllOfSchemas: processSchema(schema) for the next component schema.
ProcessComponent ==
  /\ flat = "running" /\ stack = <<>> /\ component < MaxNodes
  /\ component' = component + 1
  /\ stack' = <<Frame(component + 1)>>
  /\ UNCHANGED <<heap, flat, procVars, scanVars, svcVars, cacheVars>>

\* schema.properties[key] = this.processSchema(prop)
ProcessSchemaCall ==
  /\ flat = "running" /\ stack # <<>> /\ Top.todo # {}
  /\ Len(stack) < StackLimit
  /\ stack' = [stack EXCEPT ![Len(stack)].todo = @ \ {NextProperty}]
                 \o <<Frame(NextProperty)>>
  /\ UNCHANGED <<heap, component, flat, procVars, scanVars, svcVars, cacheVars>>

\* The same call when the stack is full: RangeError (maximum call stack size
\* exceeded); nothing catches it, so process rejects.
ProcessSchemaOverflow ==
  /\ flat = "running" /\ stack # <<>> /\ Top.todo # {}
  /\ Len(stack) >= StackLimit
  /\ stack' = <<>>
  /\ flat' = "RangeError"
  /\ UNCHANGED <<heap, component, procVars, scanVars, svcVars, cacheVars>>

\* return schema
ProcessSchemaReturn ==
  /\ flat = "running" /\ stack # <<>> /\ Top.todo = {}
  /\ stack' = SubSeq(stack, 1, Len(stack) - 1)
  /\ UNCHANGED <<heap, component, flat, procVars, scanVars, svcVars, cacheVars>>

\* return processedSpec
MergeAllOfReturn ==
  /\ flat = "running" /\ stack = <<>> /\ component = MaxNodes
  /\ flat' = "returned"
  /\ UNCHANGED <<heap, stack, component, procVars, scanVars, svcVars, cacheVars>>

FlattenNext ==
  \/ ProcessComponent
  \/ ProcessSchemaCall
  \/ ProcessSchemaOverflow
  \/ ProcessSchemaReturn
  \/ MergeAllOfReturn

FlattenSpec == FlattenInit /\ [][FlattenNext]_vars

\* C28: the flatten pass of a document with a schema that refers to itself does
\* not run out of stack: process does not end in a RangeError.
C28_SelfReferenceReturns ==
  (\E n \in DOMAIN heap : n \in heap[n]) => flat # "RangeError"

====
